---------------------------- MODULE Spec2Model ----------------------------
(***************************************************************************)
(* A model of the content publication pipeline of xeopub-admin-workers:    *)
(* the slug resolver (utils/slugify.ts), the write handlers for posts,     *)
(* series and websites, the relational store they share (the tables, the   *)
(* UNIQUE and FOREIGN KEY constraints and the triggers of                  *)
(* migrations/0001_initial_schemas.sql) and the "what's next" report.      *)
(*                                                                         *)
(* The migration names its tables shows/episodes and the handlers address  *)
(* them as websites/posts (show_id is website_id): the model reads the     *)
(* migration under that renaming.  The store is Cloudflare D1, which       *)
(* enforces the declared FOREIGN KEY constraints.                          *)
(*                                                                         *)
(* Strings are sequences of one-character tokens; a request is a slot of   *)
(* reqs that advances by one store statement (one await) per step, so      *)
(* requests interleave exactly at the handlers' suspension points.         *)
(***************************************************************************)
EXTENDS Integers, Sequences, FiniteSets, TLC

VARIABLES
    websites,   \* id -> row of table websites
    series,     \* id -> row of table series
    posts,      \* id -> row of table posts
    sessions,   \* session token -> row of table user_sessions
    seq,        \* AUTOINCREMENT counters, one per table
    now,        \* the clock: CURRENT_TIMESTAMP and Date.now()
    reqs,       \* slot -> the request in flight in it (or an idle slot)
    last        \* the response most recently returned to a caller

vars == <<websites, series, posts, sessions, seq, now, reqs, last>>

---------------------------------------------------------------------------
(* Bounds of the model. *)

NumSlots == 2      \* requests in flight at once
MaxRows == 3       \* ids a request may name
MaxPosts == 2      \* posts ever inserted
MaxSeries == 4     \* series ever inserted
MaxWebsites == 4   \* websites ever inserted
MaxReports == 1    \* reports in flight
ReportPosts == 2   \* posts in the store a report reads
ClockStart == 1000 \* the first instant of the clock
ClockTicks == 1    \* how many times the clock advances
RandomPoints == 2  \* sample points of Math.random(), spread over [0, 1)

Slots == 1..NumSlots
Ids == 1..MaxRows
MaxClock == ClockStart + ClockTicks

---------------------------------------------------------------------------
(* Program constants. *)

NULL == 0                \* SQL NULL in an integer column (ids are positive)
MAX_ATTEMPTS == 10
RANDOM_RANGE == 999

Statuses ==
    {"draft", "researching", "researched", "generatingMaterial",
     "materialGenerated", "generatingVideo", "videoGenerated"}

PlatformStatuses == {"none", "scheduled", "public", "private", "deleted"}

---------------------------------------------------------------------------
(* Strings. *)

Range(f) == {f[x] : x \in DOMAIN f}

RECURSIVE Digits(_)
\* The decimal numeral of n >= 0, as template literals print a number.
Digits(n) ==
    LET d == <<"0", "1", "2", "3", "4", "5", "6", "7", "8", "9">>
    IN  IF n < 10 THEN <<d[n + 1]>> ELSE Digits(n \div 10) \o <<d[(n % 10) + 1]>>

\* `${a}-${n}`
WithSuffix(a, n) == a \o <<"-">> \o Digits(n)

---------------------------------------------------------------------------
(* generateSlug (utils/slugify.ts).  The alphabet of the model: lower and  *)
(* upper case letters, a digit, the space, the hyphen, a punctuation mark, *)
(* a precomposed accented letter and the combining acute accent U+0301.    *)

Letters == {"a", "b", "e", "s", "i", "r", "w", "t"}
DigitChars == {"0", "1", "2", "3", "4", "5", "6", "7", "8", "9"}
SlugChars == Letters \cup DigitChars \cup {"-"}

\* String.prototype.toLowerCase, one character
LowerChar(c) ==
    CASE c = "A" -> "a"
      [] c = "B" -> "b"
      [] c = "E_acute" -> "e_acute"
      [] OTHER -> c

\* \s of the regular expressions, and what trim() strips
Spaces == {" "}

\* normalize('NFD'), one character: the canonical decomposition
DecomposeChar(c) == IF c = "e_acute" THEN <<"e", "U+0301">> ELSE <<c>>

\* [\u0300-\u036f]
IsDiacritic(c) == c = "U+0301"

\* toLowerCase()
LowerCase(s) == [i \in 1..Len(s) |-> LowerChar(s[i])]

\* the decomposition of every character of s
DecomposeChars(s) == [i \in 1..Len(s) |-> DecomposeChar(s[i])]

RECURSIVE Flatten(_)
Flatten(ss) == IF ss = <<>> THEN <<>> ELSE Head(ss) \o Flatten(Tail(ss))

RECURSIVE DropWhile(_, _)
\* s without its longest prefix of characters of set cs
DropWhile(s, cs) ==
    IF s # <<>> /\ Head(s) \in cs THEN DropWhile(Tail(s), cs) ELSE s

Reverse(s) == [i \in 1..Len(s) |-> s[Len(s) + 1 - i]]

\* s without its leading and trailing characters of set cs
Strip(s, cs) == Reverse(DropWhile(Reverse(DropWhile(s, cs)), cs))

RECURSIVE SquashRuns(_, _, _)
\* replace(/x+/g, y): every maximal run of characters of set cs becomes to
SquashRuns(s, cs, to) ==
    IF s = <<>> THEN <<>>
    ELSE IF Head(s) \in cs
         THEN to \o SquashRuns(DropWhile(s, cs), cs, to)
         ELSE <<Head(s)>> \o SquashRuns(Tail(s), cs, to)

NotDiacritic(c) == ~IsDiacritic(c)
IsSlugChar(c) == c \in SlugChars

\* the steps of lines 15-16 taken before the step of line 13
generateSlugStripFirst(text) ==
    IF text = <<>> THEN <<>>
    ELSE
      LET lowered == LowerCase(text)
          trimmed == Strip(lowered, Spaces)
          nfd == Flatten(DecomposeChars(trimmed))
          unaccented == SelectSeq(nfd, NotDiacritic)
          hyphened == SquashRuns(unaccented, Spaces, <<"-">>)
          stripped == Strip(hyphened, {"-"})
          cleaned == SelectSeq(stripped, IsSlugChar)
      IN  SquashRuns(cleaned, {"-"}, <<"-">>)

generateSlug(text) ==
    IF text = <<>> THEN <<>>
    ELSE
      LET lowered == LowerCase(text)
          trimmed == Strip(lowered, Spaces)
          nfd == Flatten(DecomposeChars(trimmed))
          unaccented == SelectSeq(nfd, NotDiacritic)
          hyphened == SquashRuns(unaccented, Spaces, <<"-">>)
          cleaned == SelectSeq(hyphened, IsSlugChar)
          collapsed == SquashRuns(cleaned, {"-"}, <<"-">>)
      IN  Strip(collapsed, {"-"})

---------------------------------------------------------------------------
(* The store: migrations/0001_initial_schemas.sql.  A statement either     *)
(* aborts, leaving its table as it was, or applies.  Its result is         *)
(* [err, tbl, id]: err is <<>> or the message the store raises.            *)

NoError == <<>>
UniqueSlugError(t) == <<"UNIQUE constraint failed", t, "slug">>
UniqueNameError == <<"UNIQUE constraint failed", "websites", "name">>
ForeignKeyError == <<"FOREIGN KEY constraint failed">>
ShowMismatchError == <<"post website_id must match the website_id of the series.">>
BindUndefinedError == <<"Type 'undefined' not supported for value 'undefined'">>
NotNullError == <<"NOT NULL constraint failed", "websites", "slug">>
SeriesLockedError == <<"Cannot change website of a series with posts.">>

Aborted(e, tbl) == [err |-> e, tbl |-> tbl, id |-> NULL]
Applied(tbl, id) == [err |-> NoError, tbl |-> tbl, id |-> id]

\* the statuses in the order of the pipeline
StatusOrder ==
    <<"draft", "researching", "researched", "generatingMaterial",
      "materialGenerated", "generatingVideo", "videoGenerated">>

StatusRank(s) == CHOOSE i \in DOMAIN StatusOrder : StatusOrder[i] = s

\* a write under which a status never moves back
AssignForwardOnly(row, set) ==
    [c \in DOMAIN row |->
        IF c \in DOMAIN set
           /\ ~(c = "status" /\ StatusRank(set[c]) < StatusRank(row[c]))
        THEN set[c] ELSE row[c]]

\* UPDATE ... SET: the row with the columns of set replaced
Assign(row, set) ==
    [c \in DOMAIN row |-> IF c \in DOMAIN set THEN set[c] ELSE row[c]]

\* The WHEN clause of the two triggers on posts.  A series_id that names
\* no series makes the subquery NULL and the comparison not true.
ShowMismatch(new) ==
    /\ new.seriesId # NULL
    /\ new.seriesId \in DOMAIN series
    /\ new.websiteId # series[new.seriesId].websiteId

\* the insert trigger missing from the store
MismatchOnInsertDropped(new) == FALSE

\* Trigger episode_show_match_series_insert
MismatchOnInsert(new) == ShowMismatch(new)

\* the update trigger missing from the store
MismatchOnUpdateDropped(new) == FALSE

\* Trigger episode_show_match_series_update
MismatchOnUpdate(new) == ShowMismatch(new)

\* the trigger looking for posts under the wrong key
SeriesLockedWrongKey(id, old, new) ==
    /\ old.websiteId # new.websiteId
    /\ \E p \in DOMAIN posts : posts[p].seriesId = new.websiteId

\* Trigger prevent_series_show_change_if_has_episodes: the WHEN clause.
SeriesLocked(id, old, new) ==
    /\ old.websiteId # new.websiteId
    /\ \E p \in DOMAIN posts : posts[p].seriesId = id

\* the UNIQUE constraint missing from the slug column
SlugTakenNever(tbl, id, slug) == FALSE

\* slug TEXT NOT NULL UNIQUE, of table tbl, for the row id (0: a new row)
SlugTaken(tbl, id, slug) == \E o \in DOMAIN tbl \ {id} : tbl[o].slug = slug

\* the store without the foreign key on series_id
PostKeysWebsiteOnly(new) == new.websiteId \in DOMAIN websites

\* FOREIGN KEY (show_id) REFERENCES shows(id), (series_id) REFERENCES series(id)
PostKeysOk(new) ==
    /\ new.websiteId \in DOMAIN websites
    /\ new.seriesId = NULL \/ new.seriesId \in DOMAIN series

Extend(tbl, id, row) ==
    [i \in DOMAIN tbl \cup {id} |-> IF i = id THEN row ELSE tbl[i]]

\* INSERT INTO posts
InsertPost(new) ==
    IF MismatchOnInsert(new) THEN Aborted(ShowMismatchError, posts)
    ELSE IF SlugTaken(posts, NULL, new.slug) THEN Aborted(UniqueSlugError("posts"), posts)
    ELSE IF ~PostKeysOk(new) THEN Aborted(ForeignKeyError, posts)
    ELSE Applied(Extend(posts, seq.posts + 1, new), seq.posts + 1)

\* UPDATE posts SET ... WHERE id = ?; no row with this id: zero changes
UpdatePost(id, set) ==
    IF id \notin DOMAIN posts THEN Applied(posts, NULL)
    ELSE
      LET new == Assign(posts[id], set)
      IN  IF MismatchOnUpdate(new) THEN Aborted(ShowMismatchError, posts)
          ELSE IF SlugTaken(posts, id, new.slug) THEN Aborted(UniqueSlugError("posts"), posts)
          ELSE IF ~PostKeysOk(new) THEN Aborted(ForeignKeyError, posts)
          ELSE Applied(Extend(posts, id, new), id)

\* INSERT INTO series
InsertSeries(new) ==
    IF SlugTaken(series, NULL, new.slug) THEN Aborted(UniqueSlugError("series"), series)
    ELSE IF new.websiteId \notin DOMAIN websites THEN Aborted(ForeignKeyError, series)
    ELSE Applied(Extend(series, seq.series + 1, new), seq.series + 1)

\* UPDATE series SET ... WHERE id = ?
UpdateSeries(id, set) ==
    IF id \notin DOMAIN series THEN Applied(series, NULL)
    ELSE
      LET new == Assign(series[id], set)
      IN  IF SeriesLocked(id, series[id], new) THEN Aborted(SeriesLockedError, series)
          ELSE IF SlugTaken(series, id, new.slug) THEN Aborted(UniqueSlugError("series"), series)
          ELSE IF new.websiteId \notin DOMAIN websites THEN Aborted(ForeignKeyError, series)
          ELSE Applied(Extend(series, id, new), id)

NameTaken(id, name) == \E o \in DOMAIN websites \ {id} : websites[o].name = name

\* INSERT INTO websites
InsertWebsite(new) ==
    IF NameTaken(NULL, new.name) THEN Aborted(UniqueNameError, websites)
    ELSE IF SlugTaken(websites, NULL, new.slug) THEN Aborted(UniqueSlugError("websites"), websites)
    ELSE Applied(Extend(websites, seq.websites + 1, new), seq.websites + 1)

\* UPDATE websites SET ... WHERE id = ?; nulls are the columns set to NULL
UpdateWebsite(id, set, nulls) ==
    IF id \notin DOMAIN websites THEN Applied(websites, NULL)
    ELSE IF "slug" \in nulls THEN Aborted(NotNullError, websites)
    ELSE
      LET new == Assign(websites[id], set)
      IN  IF NameTaken(id, new.name) THEN Aborted(UniqueNameError, websites)
          ELSE IF SlugTaken(websites, id, new.slug) THEN Aborted(UniqueSlugError("websites"), websites)
          ELSE Applied(Extend(websites, id, new), id)

\* DELETE: the table without the row id
Remove(tbl, id) == [i \in DOMAIN tbl \ {id} |-> tbl[i]]

\* FOREIGN KEY (show_id) REFERENCES shows(id), of series and of posts:
\* a row holds the website id
WebsiteReferenced(id) ==
    \/ \E o \in DOMAIN series : series[o].websiteId = id
    \/ \E p \in DOMAIN posts : posts[p].websiteId = id

\* the foreign key on series missing from the store
SeriesReferencedNever(id) == FALSE

\* FOREIGN KEY (series_id) REFERENCES series(id), of posts
SeriesReferenced(id) == \E p \in DOMAIN posts : posts[p].seriesId = id

\* DELETE FROM websites WHERE id = ?; no row with this id: zero changes
DeleteWebsite(id) ==
    IF id \notin DOMAIN websites THEN Applied(websites, NULL)
    ELSE IF WebsiteReferenced(id) THEN Aborted(ForeignKeyError, websites)
    ELSE Applied(Remove(websites, id), id)

\* DELETE FROM series WHERE id = ?
DeleteSeries(id) ==
    IF id \notin DOMAIN series THEN Applied(series, NULL)
    ELSE IF SeriesReferenced(id) THEN Aborted(ForeignKeyError, series)
    ELSE Applied(Remove(series, id), id)

---------------------------------------------------------------------------
(* Requests.  A slot holds what a handler keeps across its awaits; a       *)
(* handler that returns frees its slot and leaves its response in last,    *)
(* where it stays until the next step of any request.                      *)

Idle == [op |-> "idle"]

\* a response; err is the error the handler caught and logged, if any
Failure(op, code, msg, err) == [op |-> op, code |-> code, msg |-> msg, err |-> err]
Response(op, code, msg) == Failure(op, code, msg, NoError)

NoResponse == Response("none", 0, "")

Has(body, key) == key \in DOMAIN body

\* body.key ?? dflt
OrElse(body, key, dflt) == IF Has(body, key) THEN body[key] ELSE dflt

\* text.trim() === ''
IsBlank(text) == Strip(text, Spaces) = <<>>

\* how many slots hold a request of handler op
InFlight(op) == Cardinality({r \in DOMAIN reqs : reqs[r].op = op})

Reply(r, resp) ==
    /\ reqs' = [reqs EXCEPT ![r] = Idle]
    /\ last' = resp

Continue(r, slot) ==
    /\ reqs' = [reqs EXCEPT ![r] = slot]
    /\ last' = NoResponse

---------------------------------------------------------------------------
(* createPostHandler (handlers/posts/create-post.handler.ts). *)

\* lines 22-28: the slug the handler goes on with
CreatePostSlug(body) ==
    IF ~Has(body, "slug") \/ body.slug = <<>> \/ IsBlank(body.slug)
    THEN generateSlug(body.title)
    ELSE body.slug

\* lines 33-39: SELECT id FROM posts WHERE slug = ? AND website_id = ? AND
\* series_id = ? (or series_id IS NULL)
PostSlugInScope(slug, websiteId, seriesId, except) ==
    \E p \in DOMAIN posts \ {except} :
        /\ posts[p].slug = slug
        /\ posts[p].websiteId = websiteId
        /\ posts[p].seriesId = seriesId

\* lines 56-84: the row the INSERT binds; created_at and updated_at take
\* the column default CURRENT_TIMESTAMP
NewPostRow(data) ==
    [websiteId |-> data.websiteId,
     seriesId |-> OrElse(data, "seriesId", NULL),
     title |-> data.title,
     slug |-> data.slug,
     statusOnYoutube |-> OrElse(data, "statusOnYoutube", "null"),
     statusOnWebsite |-> OrElse(data, "statusOnWebsite", "null"),
     statusOnX |-> OrElse(data, "statusOnX", "null"),
     freezeStatus |-> OrElse(data, "freezeStatus", TRUE),
     status |-> OrElse(data, "status", "draft"),
     scheduledPublishAt |-> OrElse(data, "scheduledPublishAt", NULL),
     lastStatusChangeAt |-> now,
     createdAt |-> now,
     updatedAt |-> now]

\* lines 11-53: the request arrives and the slug check runs
CreatePostCheck(r, body) ==
    /\ reqs[r] = Idle
    /\ seq.posts + InFlight("createPost") < MaxPosts
    /\ LET slug == CreatePostSlug(body)
       IN  IF PostSlugInScope(slug, body.websiteId, OrElse(body, "seriesId", NULL), NULL)
           THEN Reply(r, Response("createPost", 400,
                    "Post slug already exists for this website/series combination."))
           ELSE Continue(r, [op |-> "createPost", pc |-> "insert",
                             data |-> [k \in DOMAIN body \cup {"slug"} |->
                                          IF k = "slug" THEN slug ELSE body[k]]])
    /\ UNCHANGED <<sessions, websites, series, posts, seq, now>>

\* lines 55-103: the INSERT and the response
CreatePostInsert(r) ==
    /\ reqs[r].op = "createPost"
    /\ reqs[r].pc = "insert"
    /\ LET res == InsertPost(NewPostRow(reqs[r].data))
       IN  /\ posts' = res.tbl
           /\ IF res.err = NoError
              THEN /\ seq' = [seq EXCEPT !.posts = res.id]
                   /\ Reply(r, Response("createPost", 201, "Post created successfully."))
              ELSE /\ UNCHANGED seq
                   /\ Reply(r, Failure("createPost", 500,
                            "An unexpected error occurred while creating the post.",
                            res.err))
    /\ UNCHANGED <<sessions, websites, series, now>>

---------------------------------------------------------------------------
(* updatePostHandler (handlers/websites/getWebsiteById.handler.ts 84-203). *)

Undefined == [def |-> FALSE]
Defined(v) == [def |-> TRUE, v |-> v]

\* lines 120-127: newSlug
UpdatePostNewSlug(updates) ==
    IF Has(updates, "title") /\ updates.title # <<>>
       /\ (~Has(updates, "slug") \/ updates.slug = <<>> \/ IsBlank(updates.slug))
    THEN Defined(generateSlug(updates.title))
    ELSE IF Has(updates, "slug") THEN Defined(updates.slug) ELSE Undefined

\* lines 84-130: the request arrives and the post is fetched
UpdatePostFetch(r, id, updates) ==
    /\ reqs[r] = Idle
    /\ IF DOMAIN updates = {}
       THEN Reply(r, Response("updatePost", 400, "No update fields provided."))
       ELSE IF id \notin DOMAIN posts
       THEN Reply(r, Response("updatePost", 404, "Post not found."))
       ELSE
         LET cur == posts[id]
             newSlug == UpdatePostNewSlug(updates)
             check == newSlug.def /\ newSlug.v # <<>> /\ newSlug.v # cur.slug
         IN  Continue(r, [op |-> "updatePost",
                          pc |-> IF check THEN "slug" ELSE "update",
                          id |-> id,
                          body |-> updates,
                          updates |-> updates,
                          newSlug |-> newSlug,
                          websiteId |-> OrElse(updates, "websiteId", cur.websiteId),
                          seriesId |-> OrElse(updates, "seriesId", cur.seriesId)])
    /\ UNCHANGED <<sessions, websites, series, posts, seq, now>>

\* lines 131-149: the slug check of a changed slug
UpdatePostCheckSlug(r) ==
    /\ reqs[r].op = "updatePost"
    /\ reqs[r].pc = "slug"
    /\ LET q == reqs[r]
       IN  IF PostSlugInScope(q.newSlug.v, q.websiteId, q.seriesId, q.id)
           THEN Reply(r, Response("updatePost", 400,
                    "Post slug already exists for this website/series combination."))
           ELSE Continue(r, [q EXCEPT
                    !.pc = "update",
                    !.updates = [k \in DOMAIN q.updates \cup {"slug"} |->
                                    IF k = "slug" THEN q.newSlug.v ELSE q.updates[k]]])
    /\ UNCHANGED <<sessions, websites, series, posts, seq, now>>

\* lines 175-178: whether the write stamps last_status_change_at
StampsStatusChange(updates) == Has(updates, "status")

\* a SET list that stamps last_status_change_at on every write
UpdatePostSetStampsAll(updates) ==
    [k \in DOMAIN updates \cup {"updatedAt", "lastStatusChangeAt"} |->
        IF k \in {"updatedAt", "lastStatusChangeAt"} THEN now ELSE updates[k]]

\* lines 151-180: the SET list: every supplied field, updated_at, and
\* last_status_change_at
UpdatePostSet(updates) ==
    LET stamped == {"updatedAt"} \cup
                   (IF StampsStatusChange(updates) THEN {"lastStatusChangeAt"} ELSE {})
    IN  [k \in DOMAIN updates \cup stamped |->
            IF k \in stamped THEN now ELSE updates[k]]

\* lines 182-202: the UPDATE and the response
UpdatePostWrite(r) ==
    /\ reqs[r].op = "updatePost"
    /\ reqs[r].pc = "update"
    /\ LET res == UpdatePost(reqs[r].id, UpdatePostSet(reqs[r].updates))
       IN  /\ posts' = res.tbl
           /\ IF res.err # NoError
              THEN Reply(r, Failure("updatePost", 500,
                       "An unexpected error occurred while updating the post.", res.err))
              ELSE IF res.id # NULL
              THEN Reply(r, Response("updatePost", 200, "Post updated successfully."))
              ELSE Reply(r, Response("updatePost", 200,
                       "Post updated successfully (no changes applied)."))
    /\ UNCHANGED <<sessions, websites, series, seq, now>>

---------------------------------------------------------------------------
(* ensureUniqueSlug (utils/slugify.ts 31-87), one existence check a step.  *)

Table(name) ==
    CASE name = "websites" -> websites
      [] name = "series" -> series
      [] name = "posts" -> posts

\* line 55
GloballyUniqueSlugTables == {"websites", "series", "posts"}

\* Math.random(), in thousandths: 0, ..., 999
RandomSamples == {(i * 999) \div (RandomPoints - 1) : i \in 0..(RandomPoints - 1)}

\* line 77: Math.floor(Math.random() * 999) + 1
RandomNumber(sample) == (sample * RANDOM_RANGE) \div 1000 + 1

\* the filters of the caller, whatever the table
CallerConditions(tableName, conds) == conds

\* lines 54-67: the equality filters the query applies
AppliedConditions(tableName, conds) ==
    IF tableName \in GloballyUniqueSlugTables THEN <<>> ELSE conds

\* no row left out
ExcludedNothing(excludeId) == {}

\* lines 49-52: the row that the check leaves out
Excluded(excludeId) == {excludeId}

\* the id filter always bound: id != NULL holds of no row
SlugExistsNullCompare(tableName, slug, excludeId, conds) ==
    /\ excludeId # NULL
    /\ \E id \in DOMAIN Table(tableName) \ {excludeId} :
           Table(tableName)[id].slug = slug

\* lines 45-69: the existence check of slug
SlugExists(tableName, slug, excludeId, conds) ==
    LET tbl == Table(tableName)
        on == AppliedConditions(tableName, conds)
    IN  \E id \in DOMAIN tbl \ Excluded(excludeId) :
            /\ tbl[id].slug = slug
            /\ \A c \in DOMAIN on : tbl[id][c] = on[c]

\* the suffix appended to the value tried last
RetrySlugChained(initialSlug, currentSlug, n) == WithSuffix(currentSlug, n)

\* line 78: the value tried after a collision
RetrySlug(initialSlug, currentSlug, n) == WithSuffix(initialSlug, n)

\* the time in seconds
FallbackSlugInSeconds(initialSlug) == WithSuffix(initialSlug, now \div 1000)

\* line 86
FallbackSlug(initialSlug) == WithSuffix(initialSlug, now)

\* lines 40-42: the call; ret is where the handler goes on
EnterUnique(slot, initialSlug, tableName, excludeId, ret) ==
    [k \in (DOMAIN slot \ {"resolved"}) \cup {"pc", "ret", "eus"} |->
        CASE k = "pc" -> "unique"
          [] k = "ret" -> ret
          [] k = "eus" -> [initialSlug |-> initialSlug, currentSlug |-> initialSlug,
                           attempt |-> 0, table |-> tableName,
                           excludeId |-> excludeId, conds |-> <<>>]
          [] OTHER -> slot[k]]

\* the return: resolved is the value, the number of checks made and whether
\* the value came out of a check
LeaveUnique(slot, slug, checks, checked) ==
    [k \in (DOMAIN slot \ {"eus", "ret"}) \cup {"resolved"} |->
        CASE k = "pc" -> slot.ret
          [] k = "resolved" -> [def |-> TRUE, slug |-> slug, checks |-> checks,
                                checked |-> checked]
          [] OTHER -> slot[k]]

\* lines 44-86: one turn of the loop
EnsureUniqueSlugStep(r) ==
    /\ reqs[r].op # "idle"
    /\ reqs[r].pc = "unique"
    /\ LET q == reqs[r]
           e == q.eus
       IN  IF ~SlugExists(e.table, e.currentSlug, e.excludeId, e.conds)
           THEN Continue(r, LeaveUnique(q, e.currentSlug, e.attempt + 1, TRUE))
           ELSE IF e.attempt + 1 < MAX_ATTEMPTS
           THEN \E sample \in RandomSamples :
                   Continue(r, [q EXCEPT
                       !.eus.attempt = e.attempt + 1,
                       !.eus.currentSlug =
                           RetrySlug(e.initialSlug, e.currentSlug, RandomNumber(sample))])
           ELSE Continue(r, LeaveUnique(q, FallbackSlug(e.initialSlug),
                                        e.attempt + 1, FALSE))
    /\ UNCHANGED <<sessions, websites, series, posts, seq, now>>

---------------------------------------------------------------------------
(* createSeriesHandler (handlers/series/create-series.handler.ts). *)

TempSlugPrefix == <<"t", "e", "m", "p", "-", "s", "l", "u", "g", "-">>

StartsWith(text, prefix) ==
    Len(text) >= Len(prefix) /\ SubSeq(text, 1, Len(prefix)) = prefix

\* !slug || slug.startsWith('temp-slug-')
NeedsGeneratedSlug(body) ==
    ~Has(body, "slug") \/ body.slug = <<>> \/ StartsWith(body.slug, TempSlugPrefix)

\* x || y, of strings
OrIfEmpty(x, y) == IF x # <<>> THEN x ELSE y

SeriesWord == <<"s", "e", "r", "i", "e", "s">>
WebsiteWord == <<"w", "e", "b", "s", "i", "t", "e">>

\* lines 28-35
CreateSeriesSlug(body) ==
    IF NeedsGeneratedSlug(body)
    THEN OrIfEmpty(generateSlug(body.title), WithSuffix(SeriesWord, now))
    ELSE body.slug

\* lines 12-46: the request arrives and the website is looked up
CreateSeriesStart(r, body) ==
    /\ reqs[r] = Idle
    /\ seq.series + InFlight("createSeries") < MaxSeries
    /\ IF body.websiteId \notin DOMAIN websites
       THEN Reply(r, Response("createSeries", 400, "Website not found."))
       ELSE Continue(r, [op |-> "createSeries", pc |-> "title", body |-> body,
                         slug |-> CreateSeriesSlug(body)])
    /\ UNCHANGED <<sessions, websites, series, posts, seq, now>>

\* SELECT id FROM series WHERE title = ? AND website_id = ? (AND id != ?)
SeriesTitleInWebsite(title, websiteId, except) ==
    \E o \in DOMAIN series \ {except} :
        series[o].title = title /\ series[o].websiteId = websiteId

\* lines 48-58: the title check, then the call of ensureUniqueSlug
CreateSeriesCheckTitle(r) ==
    /\ reqs[r].op = "createSeries"
    /\ reqs[r].pc = "title"
    /\ LET q == reqs[r]
       IN  IF SeriesTitleInWebsite(q.body.title, q.body.websiteId, NULL)
           THEN Reply(r, Response("createSeries", 400,
                    "Series title already exists in this website."))
           ELSE Continue(r, EnterUnique(q, q.slug, "series", NULL, "insert"))
    /\ UNCHANGED <<sessions, websites, series, posts, seq, now>>

\* lines 60-90: the INSERT and the response
CreateSeriesInsert(r) ==
    /\ reqs[r].op = "createSeries"
    /\ reqs[r].pc = "insert"
    /\ LET q == reqs[r]
           res == InsertSeries([title |-> q.body.title, slug |-> q.resolved.slug,
                                websiteId |-> q.body.websiteId])
       IN  /\ series' = res.tbl
           /\ IF res.err = NoError
              THEN /\ seq' = [seq EXCEPT !.series = res.id]
                   /\ Reply(r, Response("createSeries", 201, "Series created successfully."))
              ELSE /\ UNCHANGED seq
                   /\ IF res.err = UniqueSlugError("series")
                      THEN Reply(r, Failure("createSeries", 400,
                               "Series slug already exists.", res.err))
                      ELSE Reply(r, Failure("createSeries", 500,
                               "Failed to create series due to a server error.", res.err))
    /\ UNCHANGED <<sessions, websites, posts, now>>

---------------------------------------------------------------------------
(* updateSeriesHandler (handlers/series/update-series.handler.ts). *)

\* lines 71-78: whether the title check runs.  The handler reads
\* existingSeries.websiteId, a field the fetched row (website_id) does not
\* have: it is undefined, so a supplied websiteId always differs from it.
UpdateSeriesChecksTitle(body, existing) ==
    /\ Has(body, "title") \/ Has(body, "websiteId")
    /\ \/ OrElse(body, "title", existing.title) # existing.title
       \/ Has(body, "websiteId")

\* lines 89-102: newSlug before ensureUniqueSlug
UpdateSeriesNewSlug(id, body, existing) ==
    LET fallback == WithSuffix(WithSuffix(SeriesWord, id), now)
    IN  IF Has(body, "slug") /\ body.slug # <<>> /\ ~IsBlank(body.slug)
        THEN IF body.slug # existing.slug THEN Defined(body.slug) ELSE Undefined
        ELSE IF Has(body, "title") /\ body.title # <<>> /\ body.title # existing.title
        THEN Defined(OrIfEmpty(generateSlug(body.title), fallback))
        ELSE IF Has(body, "slug") /\ body.slug # <<>> /\ IsBlank(body.slug)
        THEN Defined(OrIfEmpty(generateSlug(
                 IF Has(body, "title") /\ body.title # <<>> THEN body.title
                 ELSE existing.title), fallback))
        ELSE Undefined

\* lines 89-108: slug processing; the handler goes on to ensureUniqueSlug
\* or to the UPDATE
UpdateSeriesAfterTitle(q) ==
    LET newSlug == UpdateSeriesNewSlug(q.id, q.body, q.existing)
    IN  IF newSlug.def /\ newSlug.v # <<>> /\ newSlug.v # q.existing.slug
        THEN EnterUnique(q, newSlug.v, "series", q.id, "update")
        ELSE [k \in DOMAIN q \cup {"resolved"} |->
                 CASE k = "pc" -> "update"
                   [] k = "resolved" -> Undefined
                   [] OTHER -> q[k]]

\* lines 71-87, before the query
UpdateSeriesAfterWebsite(q) ==
    IF UpdateSeriesChecksTitle(q.body, q.existing)
    THEN [q EXCEPT !.pc = "title"]
    ELSE UpdateSeriesAfterTitle(q)

\* lines 22-62: the request arrives and the series is fetched
UpdateSeriesFetch(r, id, body) ==
    /\ reqs[r] = Idle
    /\ IF DOMAIN body = {}
       THEN Reply(r, Response("updateSeries", 200,
                "Series updated successfully. No changes detected."))
       ELSE IF id \notin DOMAIN series
       THEN Reply(r, Response("updateSeries", 404, "Series not found."))
       ELSE
         LET q == [op |-> "updateSeries", pc |-> "website", id |-> id,
                   body |-> body, existing |-> series[id]]
         IN  IF Has(body, "websiteId") /\ body.websiteId # series[id].websiteId
             THEN Continue(r, q)
             ELSE Continue(r, UpdateSeriesAfterWebsite(q))
    /\ UNCHANGED <<sessions, websites, series, posts, seq, now>>

\* lines 62-69: the new website is looked up
UpdateSeriesCheckWebsite(r) ==
    /\ reqs[r].op = "updateSeries"
    /\ reqs[r].pc = "website"
    /\ IF reqs[r].body.websiteId \notin DOMAIN websites
       THEN Reply(r, Response("updateSeries", 400, "New website not found."))
       ELSE Continue(r, UpdateSeriesAfterWebsite(reqs[r]))
    /\ UNCHANGED <<sessions, websites, series, posts, seq, now>>

\* lines 79-87: the title check.  Without a supplied websiteId the query
\* binds undefined, which the store client refuses: the handler's catch
\* answers 500.
UpdateSeriesCheckTitle(r) ==
    /\ reqs[r].op = "updateSeries"
    /\ reqs[r].pc = "title"
    /\ LET q == reqs[r]
       IN  IF ~Has(q.body, "websiteId")
           THEN Reply(r, Failure("updateSeries", 500,
                    "Failed to update series due to a server error.", BindUndefinedError))
           ELSE IF SeriesTitleInWebsite(OrElse(q.body, "title", q.existing.title),
                                        q.body.websiteId, q.id)
           THEN Reply(r, Response("updateSeries", 400,
                    "Series title already exists in this website for another series."))
           ELSE Continue(r, UpdateSeriesAfterTitle(q))
    /\ UNCHANGED <<sessions, websites, series, posts, seq, now>>

\* lines 110-141: the SET list, each field only if it differs from the
\* fetched row
UpdateSeriesSet(q) ==
    LET changed == {k \in {"title", "websiteId"} :
                       Has(q.body, k) /\ q.body[k] # q.existing[k]}
        slugged == IF q.resolved.def /\ q.resolved.slug # <<>>
                      /\ q.resolved.slug # q.existing.slug
                   THEN {"slug"} ELSE {}
    IN  [k \in changed \cup slugged |->
            IF k = "slug" THEN q.resolved.slug ELSE q.body[k]]

\* lines 143-173: the UPDATE and the response
UpdateSeriesWrite(r) ==
    /\ reqs[r].op = "updateSeries"
    /\ reqs[r].pc = "update"
    /\ LET set == UpdateSeriesSet(reqs[r])
           res == UpdateSeries(reqs[r].id, set)
       IN  IF DOMAIN set = {}
           THEN /\ UNCHANGED series
                /\ Reply(r, Response("updateSeries", 200,
                       "Series updated successfully. No changes detected."))
           ELSE /\ series' = res.tbl
                /\ IF res.err = NoError
                   THEN Reply(r, Response("updateSeries", 200, "Series updated successfully."))
                   ELSE IF res.err = UniqueSlugError("series")
                   THEN Reply(r, Failure("updateSeries", 400,
                            "Series slug already exists.", res.err))
                   ELSE Reply(r, Failure("updateSeries", 500,
                            "Failed to update series due to a server error.", res.err))
    /\ UNCHANGED <<sessions, websites, posts, seq, now>>

---------------------------------------------------------------------------
(* createWebsiteHandler (utils/slugify.ts 130-234). *)

\* lines 151-156
CreateWebsiteSlug(body) ==
    IF NeedsGeneratedSlug(body)
    THEN OrIfEmpty(generateSlug(body.name), WithSuffix(WebsiteWord, now))
    ELSE body.slug

\* lines 130-160: the request arrives and ensureUniqueSlug is called
CreateWebsiteStart(r, body) ==
    /\ reqs[r] = Idle
    /\ seq.websites + InFlight("createWebsite") < MaxWebsites
    /\ Continue(r, EnterUnique([op |-> "createWebsite", pc |-> "start", body |-> body],
                               CreateWebsiteSlug(body), "websites", NULL, "name"))
    /\ UNCHANGED <<sessions, websites, series, posts, seq, now>>

\* lines 161-170: the name check
CreateWebsiteCheckName(r) ==
    /\ reqs[r].op = "createWebsite"
    /\ reqs[r].pc = "name"
    /\ IF NameTaken(NULL, reqs[r].body.name)
       THEN Reply(r, Response("createWebsite", 400, "Website name already exists."))
       ELSE Continue(r, [reqs[r] EXCEPT !.pc = "insert"])
    /\ UNCHANGED <<sessions, websites, series, posts, seq, now>>

\* lines 172-233: the INSERT and the response
CreateWebsiteInsert(r) ==
    /\ reqs[r].op = "createWebsite"
    /\ reqs[r].pc = "insert"
    /\ LET q == reqs[r]
           res == InsertWebsite([name |-> q.body.name, slug |-> q.resolved.slug])
       IN  /\ websites' = res.tbl
           /\ IF res.err = NoError
              THEN /\ seq' = [seq EXCEPT !.websites = res.id]
                   /\ Reply(r, Response("createWebsite", 201, "Website created successfully."))
              ELSE /\ UNCHANGED seq
                   /\ Reply(r, Failure("createWebsite", 500, "Failed to create website.",
                                       res.err))
    /\ UNCHANGED <<sessions, series, posts, now>>

---------------------------------------------------------------------------
(* updateWebsiteHandler (handlers/websites/update-website.handler.ts). *)

\* lines 64-80: newSlugValue before ensureUniqueSlug
UpdateWebsiteNewSlug(id, body, existing) ==
    LET fallback == WithSuffix(WithSuffix(WebsiteWord, id), now)
        named == Has(body, "name") /\ body.name # <<>>
    IN  IF Has(body, "slug")
        THEN IF body.slug = <<>> \/ StartsWith(body.slug, TempSlugPrefix)
             THEN Defined(OrIfEmpty(generateSlug(IF named THEN body.name ELSE existing.name),
                                    fallback))
             ELSE Defined(body.slug)
        ELSE IF named /\ body.name # existing.name
        THEN Defined(OrIfEmpty(generateSlug(body.name), fallback))
        ELSE Undefined

\* lines 64-105: slug processing; the handler goes on to ensureUniqueSlug or
\* to the UPDATE.  A slug of blanks only is turned into null.
UpdateWebsiteAfterName(q) ==
    LET newSlug == UpdateWebsiteNewSlug(q.id, q.body, q.existing)
    IN  IF newSlug.def /\ ~IsBlank(newSlug.v)
        THEN EnterUnique(q, newSlug.v, "websites", q.id, "update")
        ELSE [k \in DOMAIN q \cup {"resolved", "slugToNull"} |->
                 CASE k = "pc" -> "update"
                   [] k = "resolved" -> Undefined
                   [] k = "slugToNull" -> newSlug.def
                   [] OTHER -> q[k]]

\* lines 19-52: the request arrives and the website is fetched
UpdateWebsiteFetch(r, id, body) ==
    /\ reqs[r] = Idle
    /\ IF DOMAIN body = {}
       THEN Reply(r, Response("updateWebsite", 400, "No update data provided."))
       ELSE IF id \notin DOMAIN websites
       THEN Reply(r, Response("updateWebsite", 404, "Website not found."))
       ELSE
         LET q == [op |-> "updateWebsite", pc |-> "name", id |-> id, body |-> body,
                   existing |-> websites[id], slugToNull |-> FALSE]
         IN  IF Has(body, "name") /\ body.name # <<>>
             THEN Continue(r, q)
             ELSE Continue(r, UpdateWebsiteAfterName(q))
    /\ UNCHANGED <<sessions, websites, series, posts, seq, now>>

\* lines 53-62: the name check
UpdateWebsiteCheckName(r) ==
    /\ reqs[r].op = "updateWebsite"
    /\ reqs[r].pc = "name"
    /\ IF NameTaken(reqs[r].id, reqs[r].body.name)
       THEN Reply(r, Response("updateWebsite", 400, "Website name already exists."))
       ELSE Continue(r, UpdateWebsiteAfterName(reqs[r]))
    /\ UNCHANGED <<sessions, websites, series, posts, seq, now>>

\* lines 84-88, 107-124: the SET list
UpdateWebsiteSet(q) ==
    LET named == IF Has(q.body, "name") THEN {"name"} ELSE {}
        slugged == IF q.resolved.def /\ q.resolved.slug # q.existing.slug
                   THEN {"slug"} ELSE {}
    IN  [k \in named \cup slugged |->
            IF k = "slug" THEN q.resolved.slug ELSE q.body[k]]

\* lines 126-154: the UPDATE and the response
UpdateWebsiteWrite(r) ==
    /\ reqs[r].op = "updateWebsite"
    /\ reqs[r].pc = "update"
    /\ LET q == reqs[r]
           set == UpdateWebsiteSet(q)
           nulls == IF q.slugToNull THEN {"slug"} ELSE {}
           res == UpdateWebsite(q.id, set, nulls)
       IN  IF DOMAIN set = {} /\ nulls = {}
           THEN /\ UNCHANGED websites
                /\ Reply(r, Response("updateWebsite", 200, "No effective changes to apply."))
           ELSE /\ websites' = res.tbl
                /\ IF res.err = NoError
                   THEN Reply(r, Response("updateWebsite", 200, "Website updated successfully."))
                   ELSE Reply(r, Failure("updateWebsite", 500, "Failed to update website.",
                                         res.err))
    /\ UNCHANGED <<sessions, series, posts, seq, now>>

---------------------------------------------------------------------------
(* deleteWebsiteHandler (handlers/websites/delete-website:                 *)
(* unnamed/part_010).                                                      *)

\* lines 18-23: the request arrives and the row is looked up
DeleteWebsiteFetch(r, id) ==
    /\ reqs[r] = Idle
    /\ IF id \notin DOMAIN websites
       THEN Reply(r, Response("deleteWebsite", 404, "Website not found."))
       ELSE Continue(r, [op |-> "deleteWebsite", pc |-> "posts", id |-> id])
    /\ UNCHANGED <<sessions, websites, series, posts, seq, now>>

\* the check of line 26 finding no post ever
DependentPostsNever(id) == FALSE

\* line 26: SELECT id FROM posts WHERE website_id = ?1 LIMIT 1
DependentPosts(id) == \E p \in DOMAIN posts : posts[p].websiteId = id

\* line 32: SELECT id FROM series WHERE website_id = ?1 LIMIT 1
DependentSeries(id) == \E o \in DOMAIN series : series[o].websiteId = id

\* lines 25-29: the check for posts of the website
DeleteWebsiteCheckPosts(r) ==
    /\ reqs[r].op = "deleteWebsite"
    /\ reqs[r].pc = "posts"
    /\ IF DependentPosts(reqs[r].id)
       THEN Reply(r, Response("deleteWebsite", 400,
                "Cannot delete website: It is referenced by existing posts."))
       ELSE Continue(r, [reqs[r] EXCEPT !.pc = "series"])
    /\ UNCHANGED <<sessions, websites, series, posts, seq, now>>

\* lines 31-35: the check for series of the website
DeleteWebsiteCheckSeries(r) ==
    /\ reqs[r].op = "deleteWebsite"
    /\ reqs[r].pc = "series"
    /\ IF DependentSeries(reqs[r].id)
       THEN Reply(r, Response("deleteWebsite", 400,
                "Cannot delete website: It is referenced by existing series."))
       ELSE Continue(r, [reqs[r] EXCEPT !.pc = "delete"])
    /\ UNCHANGED <<sessions, websites, series, posts, seq, now>>

\* lines 39-56: the DELETE and the response
DeleteWebsiteRun(r) ==
    /\ reqs[r].op = "deleteWebsite"
    /\ reqs[r].pc = "delete"
    /\ LET res == DeleteWebsite(reqs[r].id)
       IN  /\ websites' = res.tbl
           /\ IF res.err # NoError
              THEN Reply(r, Failure("deleteWebsite", 500,
                       "Failed to delete website due to an unexpected error.", res.err))
              ELSE IF res.id # NULL
              THEN Reply(r, Response("deleteWebsite", 200, "Website deleted successfully."))
              ELSE Reply(r, Response("deleteWebsite", 404,
                       "Website not found or already deleted."))
    /\ UNCHANGED <<sessions, series, posts, seq, now>>

---------------------------------------------------------------------------
(* deleteSeriesHandler (handlers/series/deleteSeries: unnamed/part_019).   *)

\* lines 18-26: the request arrives and the row is looked up
DeleteSeriesFetch(r, id) ==
    /\ reqs[r] = Idle
    /\ IF id \notin DOMAIN series
       THEN Reply(r, Response("deleteSeries", 404, "Series not found."))
       ELSE Continue(r, [op |-> "deleteSeries", pc |-> "posts", id |-> id])
    /\ UNCHANGED <<sessions, websites, series, posts, seq, now>>

\* line 29: SELECT id FROM posts WHERE series_id = ?1 LIMIT 1
AssociatedPost(id) == \E p \in DOMAIN posts : posts[p].seriesId = id

\* lines 28-35: the check for posts of the series
DeleteSeriesCheckPosts(r) ==
    /\ reqs[r].op = "deleteSeries"
    /\ reqs[r].pc = "posts"
    /\ IF AssociatedPost(reqs[r].id)
       THEN Reply(r, Response("deleteSeries", 400,
                "Cannot delete series: It has associated posts."))
       ELSE Continue(r, [reqs[r] EXCEPT !.pc = "delete"])
    /\ UNCHANGED <<sessions, websites, series, posts, seq, now>>

\* lines 37-54: the DELETE and the response
DeleteSeriesRun(r) ==
    /\ reqs[r].op = "deleteSeries"
    /\ reqs[r].pc = "delete"
    /\ LET res == DeleteSeries(reqs[r].id)
       IN  /\ series' = res.tbl
           /\ IF res.err # NoError
              THEN Reply(r, Failure("deleteSeries", 500,
                       "Failed to delete series due to a server error.", res.err))
              ELSE IF res.id # NULL
              THEN Reply(r, Response("deleteSeries", 200, "Series deleted successfully."))
              ELSE Reply(r, Response("deleteSeries", 404, "Series not found."))
    /\ UNCHANGED <<sessions, websites, posts, seq, now>>

---------------------------------------------------------------------------
(* listWhatsNextPosts (handlers/whats-next: unnamed/part_013).             *)
(*                                                                         *)
(* A stored date is written n > 0 for the text 'YYYY-MM-DD HH:MM:SS' of    *)
(* instant n, the form CURRENT_TIMESTAMP writes; NULL for no value; and    *)
(* -n for a text of instant n that line 32 cannot read, such as the ISO    *)
(* text ending in Z that createPost stores for scheduledPublishAt, to      *)
(* which line 32 appends a second Z.  A date of a response is <<"iso", n>> *)
(* for the ISO text of instant n, or NoDate for null.                      *)

NoDate == <<>>
IsoString(n) == <<"iso", n>>

\* the conversion without the check of line 34
safeToISOStringUnchecked(dateString) ==
    IF dateString = NULL THEN NoDate ELSE IsoString(dateString)

\* lines 27-38: safeToISOString
safeToISOString(dateString) ==
    IF dateString = NULL THEN NoDate
    ELSE IF dateString < 0 THEN NoDate
    ELSE IsoString(dateString)

\* lines 54-56: safeToISOString(...) ?? new Date().toISOString()
OrNow(date) == IF date = NoDate THEN IsoString(now) ELSE date

\* lines 41-57: mapToCamelCase, of the row of post p as the query joins it
mapToCamelCase(p) ==
    [id |-> p,
     title |-> posts[p].title,
     slug |-> posts[p].slug,
     status |-> posts[p].status,
     websiteId |-> posts[p].websiteId,
     seriesId |-> posts[p].seriesId,
     scheduledPublishAt |-> safeToISOString(posts[p].scheduledPublishAt),
     freezeStatus |-> posts[p].freezeStatus,
     lastStatusChangeAt |-> OrNow(safeToISOString(posts[p].lastStatusChangeAt)),
     updatedAt |-> OrNow(safeToISOString(posts[p].updatedAt)),
     createdAt |-> OrNow(safeToISOString(posts[p].createdAt))]

\* lines 78, 128: results.map(mapToCamelCase)
MapRows(rows) == [i \in DOMAIN rows |-> mapToCamelCase(rows[i])]

\* the ids of the posts of a section
PostIds(rows) == {rows[i].id : i \in DOMAIN rows}

\* the rows S sorted by key the other way, ascending
SortedAsc(S, key) ==
    {f \in [1..Cardinality(S) -> S] :
        /\ \A i, j \in DOMAIN f : f[i] = f[j] => i = j
        /\ \A i, j \in DOMAIN f : i < j => key[f[i]] <= key[f[j]]}

\* the orders in which a query may return the rows S, sorted by key
\* descending; rows of equal key come in any order
SortedDesc(S, key) ==
    {f \in [1..Cardinality(S) -> S] :
        /\ \A i, j \in DOMAIN f : f[i] = f[j] => i = j
        /\ \A i, j \in DOMAIN f : i < j => key[f[i]] >= key[f[j]]}

UpdatedAt == [p \in DOMAIN posts |-> posts[p].updatedAt]
CreatedAt == [p \in DOMAIN posts |-> posts[p].createdAt]

\* lines 68-79: fetchPostsByStatus; extraWhere is the conjunction of its
\* column = value conditions
PostsByStatus(status, extraWhere) ==
    {p \in DOMAIN posts :
        /\ posts[p].websiteId \in DOMAIN websites
        /\ posts[p].status = status
        /\ \A i \in DOMAIN extraWhere : posts[p][extraWhere[i][1]] = extraWhere[i][2]}

\* line 68: extraWhere = ''
NoExtraWhere == <<>>

\* the secondary channel not gated on the primary one
ToPublishOnXUngated == <<<<"statusOnX", "none">>>>

\* the primary channel listed whatever its status
ToPublishOnYouTubeAny == <<>>

\* line 141: "AND e.status_on_youtube = 'none'"
ToPublishOnYouTubeWhere == <<<<"statusOnYoutube", "none">>>>

\* line 142: "AND e.status_on_x = 'none' AND e.status_on_youtube = 'public'"
ToPublishOnXWhere == <<<<"statusOnX", "none">>, <<"statusOnYoutube", "public">>>>

\* lines 85-87: SUM(CASE WHEN ... THEN 1 ELSE 0 END) over the rows of posts,
\* S being the rows of the WHEN: <<n>> for the number n, and <<>> for the
\* NULL that SUM yields over no row
SumCase(S) == IF DOMAIN posts = {} THEN <<>> ELSE <<Cardinality(S)>>

\* lines 92-94: result?.count || 0
OrZero(sum) == IF sum = <<>> THEN 0 ELSE sum[1]

\* lines 82-96 with the third count taken over every post of status
\* videoGenerated
WaitingWhateverChannels ==
    [materialGenerated |->
        OrZero(SumCase({p \in DOMAIN posts : posts[p].status = "materialGenerated"})),
     generatingVideo |->
        OrZero(SumCase({p \in DOMAIN posts : posts[p].status = "generatingVideo"})),
     generatedNotPublished |->
        OrZero(SumCase({p \in DOMAIN posts : posts[p].status = "videoGenerated"}))]

\* lines 82-96: fetchWaitingAndGenerating
WaitingAndGenerating ==
    [materialGenerated |->
        OrZero(SumCase({p \in DOMAIN posts : posts[p].status = "materialGenerated"})),
     generatingVideo |->
        OrZero(SumCase({p \in DOMAIN posts : posts[p].status = "generatingVideo"})),
     generatedNotPublished |->
        OrZero(SumCase({p \in DOMAIN posts :
            /\ posts[p].status = "videoGenerated"
            /\ posts[p].statusOnYoutube = "none"
            /\ posts[p].statusOnX = "none"
            /\ posts[p].statusOnWebsite = "none"}))]

\* the posts of series sid that the joins keep, whatever their status
JoinedOf(sid) ==
    {p \in DOMAIN posts :
        /\ posts[p].seriesId = sid
        /\ posts[p].websiteId \in DOMAIN websites}

\* lines 101-111: the drafts of series sid that RankedPosts joins
DraftsOf(sid) ==
    {p \in DOMAIN posts :
        /\ posts[p].status = "draft"
        /\ posts[p].seriesId = sid
        /\ posts[p].websiteId \in DOMAIN websites}

RESEARCH_CAP == 3

\* every row of the partition, whatever its rank
Uncapped(rows) == rows

\* line 112: rn <= 3, over one order of the partition
Capped(rows) == SubSeq(rows, 1, IF Len(rows) < RESEARCH_CAP THEN Len(rows) ELSE RESEARCH_CAP)

\* lines 99-131: fetchToResearch: the groups a query may return, one for
\* each series that has drafts, in the order of the partition key.  The
\* outer SELECT of line 111 has no ORDER BY of its own: the rows come as
\* the window step of line 104 sorted them, by series_id and then by
\* created_at descending, and line 128 appends them in that order.
ToResearch ==
    LET sids == {sid \in DOMAIN series : DraftsOf(sid) # {}}
        Group(sid, rows) ==
            [seriesId |-> sid, seriesName |-> series[sid].title,
             websiteId |-> posts[rows[1]].websiteId, posts |-> MapRows(Capped(rows))]
        RECURSIVE Groups(_)
        Groups(from) ==
            IF \A sid \in sids : sid < from THEN {<<>>}
            ELSE LET sid == CHOOSE s \in sids : s >= from /\ \A o \in sids : o >= from => s <= o
                 IN  {<<Group(sid, rows)>> \o rest :
                         rows \in SortedDesc(DraftsOf(sid), CreatedAt),
                         rest \in Groups(sid + 1)}
    IN  Groups(1)

Queries == {"toGenerateMaterial", "waitingAndGenerating", "toPublishOnYouTube",
            "toPublishOnX", "toResearch"}

\* the same rows ordered by created_at instead of updated_at
FetchPostsByCreation(status, extraWhere) ==
    {MapRows(rows) : rows \in SortedDesc(PostsByStatus(status, extraWhere), CreatedAt)}

\* lines 68-79: the results fetchPostsByStatus may return
FetchPostsByStatus(status, extraWhere) ==
    {MapRows(rows) : rows \in SortedDesc(PostsByStatus(status, extraWhere), UpdatedAt)}

\* lines 137-143: the results a query may return from the store as it is
QueryResults(query) ==
    CASE query = "toGenerateMaterial" -> FetchPostsByStatus("researched", NoExtraWhere)
      [] query = "waitingAndGenerating" -> {WaitingAndGenerating}
      [] query = "toPublishOnYouTube" ->
            FetchPostsByStatus("videoGenerated", ToPublishOnYouTubeWhere)
      [] query = "toPublishOnX" ->
            FetchPostsByStatus("videoGenerated", ToPublishOnXWhere)
      [] query = "toResearch" -> ToResearch

\* schemas (unnamed/part_008) lines 252-256: z.string().datetime()
IsDatetime(date) == date # NoDate /\ date[2] > 0

\* lines 241-257: WhatsNextPostSchema, on the fields that vary
ValidPost(row) ==
    /\ row.scheduledPublishAt = NoDate \/ IsDatetime(row.scheduledPublishAt)
    /\ IsDatetime(row.lastStatusChangeAt)
    /\ IsDatetime(row.updatedAt)
    /\ IsDatetime(row.createdAt)

\* lines 285-291: WhatsNextResponseSchema
ValidResponse(body) ==
    /\ \A k \in {"toGenerateMaterial", "toPublishOnYouTube", "toPublishOnX"} :
          \A i \in DOMAIN body[k] : ValidPost(body[k][i])
    /\ \A g \in DOMAIN body.toResearch :
          \A i \in DOMAIN body.toResearch[g].posts : ValidPost(body.toResearch[g].posts[i])

Store == <<websites, series, posts>>

\* lines 133-143: the request arrives and issues its five queries.  seen
\* and quiet record whether every query so far ran on the store as it was
\* when the request arrived.
WhatsNextStart(r) ==
    /\ reqs[r] = Idle
    /\ InFlight("whatsNext") < MaxReports
    /\ Continue(r, [op |-> "whatsNext", pc |-> "queries", pending |-> Queries,
                    body |-> [q \in {} |-> <<>>], quiet |-> TRUE, seen |-> Store])
    /\ UNCHANGED <<sessions, websites, series, posts, seq, now>>

\* what a failing query throws, and what line 145 throws
WhatsNextError == <<"D1_ERROR">>
ZodError == <<"ZodError">>

\* an answer that carries the results gathered so far
WhatsNextPartial(q, e) ==
    [op |-> "whatsNext", code |-> 200, msg |-> "", err |-> NoError,
     body |-> q.body, quiet |-> FALSE]

\* lines 154-164: the catch of the handler, of the error e
WhatsNextFailure(q, e) ==
    Failure("whatsNext", 500, "Failed to fetch what's next posts", e)

\* lines 137-164: one of the pending queries runs.  It returns its rows, or
\* it fails and the handler's catch answers 500; the response follows the
\* last result.
WhatsNextQuery(r) ==
    /\ reqs[r].op = "whatsNext"
    /\ LET q == reqs[r]
           quiet == q.quiet /\ q.seen = Store
       IN  \E query \in q.pending :
             \/ Reply(r, WhatsNextFailure(q, WhatsNextError))
             \/ \E rows \in QueryResults(query) :
                   LET body == [k \in DOMAIN q.body \cup {query} |->
                                   IF k = query THEN rows ELSE q.body[k]]
                   IN  IF q.pending = {query}
                       THEN IF ValidResponse(body)
                            THEN Reply(r, [op |-> "whatsNext", code |-> 200, msg |-> "",
                                           err |-> NoError, body |-> body, quiet |-> quiet])
                            ELSE Reply(r, WhatsNextFailure(q, ZodError))
                       ELSE Continue(r, [q EXCEPT
                                !.pending = q.pending \ {query},
                                !.body = body,
                                !.quiet = quiet,
                                !.seen = IF quiet THEN q.seen ELSE <<>>])
    /\ UNCHANGED <<sessions, websites, series, posts, seq, now>>

---------------------------------------------------------------------------
(* The clock. *)

Tick ==
    /\ now < MaxClock
    /\ now' = now + 1
    /\ last' = NoResponse
    /\ UNCHANGED <<sessions, websites, series, posts, seq, reqs>>

---------------------------------------------------------------------------
(* Spec: the write path of posts and series over two websites, one        *)
(* request at a time.                                                      *)

Titles == {<<"a">>, <<"b">>}
WebsiteIds == {1, 2}
SeriesIds == {1, 2}

SiteA == [name |-> <<"A">>, slug |-> <<"a">>]
SiteB == [name |-> <<"B">>, slug |-> <<"b">>]

\* two websites, and in each a series that createSeries has stored
Init ==
    /\ websites = <<SiteA, SiteB>>
    /\ \E t \in Titles :
          series = <<[title |-> <<"a">>, slug |-> <<"a">>, websiteId |-> 1],
                     [title |-> t, slug |-> <<"s">>, websiteId |-> 2]>>
    /\ posts = <<>>
    /\ seq = [websites |-> 2, series |-> 2, posts |-> 0]
    /\ now = ClockStart
    /\ reqs = <<Idle>>
    /\ last = NoResponse
    /\ sessions = <<>>

Optional(key, values) == {<<>>} \cup {[k \in {key} |-> v] : v \in values}

\* the union of two records with disjoint fields
Merge(f, g) == [k \in DOMAIN f \cup DOMAIN g |-> IF k \in DOMAIN f THEN f[k] ELSE g[k]]

CreatePostBodies ==
    {Merge([title |-> t, websiteId |-> w, status |-> "draft"], o) :
        t \in Titles, w \in WebsiteIds, o \in Optional("seriesId", SeriesIds)}

UpdatePostBodies ==
    {[seriesId |-> sid] : sid \in SeriesIds \cup {NULL}}
    \cup {[websiteId |-> w] : w \in WebsiteIds}
    \cup {[websiteId |-> w, seriesId |-> sid] : w \in WebsiteIds, sid \in SeriesIds}
    \cup {[slug |-> <<"b">>]}

UpdateSeriesBodies ==
    {[websiteId |-> w] : w \in WebsiteIds \cup {3}}
    \cup {[websiteId |-> 1, title |-> <<"b">>]}
    \cup {[title |-> t] : t \in Titles}
    \cup {[slug |-> <<"s">>]}

Next ==
    \/ \E r \in DOMAIN reqs, body \in CreatePostBodies : CreatePostCheck(r, body)
    \/ \E r \in DOMAIN reqs : CreatePostInsert(r)
    \/ \E r \in DOMAIN reqs, id \in Ids, body \in UpdatePostBodies : UpdatePostFetch(r, id, body)
    \/ \E r \in DOMAIN reqs : UpdatePostCheckSlug(r)
    \/ \E r \in DOMAIN reqs : UpdatePostWrite(r)
    \/ \E r \in DOMAIN reqs, id \in Ids, body \in UpdateSeriesBodies : UpdateSeriesFetch(r, id, body)
    \/ \E r \in DOMAIN reqs : UpdateSeriesCheckWebsite(r)
    \/ \E r \in DOMAIN reqs : UpdateSeriesCheckTitle(r)
    \/ \E r \in DOMAIN reqs : UpdateSeriesWrite(r)
    \/ \E r \in DOMAIN reqs : EnsureUniqueSlugStep(r)

Spec == Init /\ [][Next]_vars

---------------------------------------------------------------------------
(* SpecStamp: posts are created and updated while the clock runs.          *)

InitStamp ==
    /\ websites = <<SiteA, SiteB>>
    /\ series = <<[title |-> <<"a">>, slug |-> <<"a">>, websiteId |-> 1]>>
    /\ posts = <<>>
    /\ seq = [websites |-> 2, series |-> 1, posts |-> 0]
    /\ now = ClockStart
    /\ reqs = <<Idle>>
    /\ last = NoResponse
    /\ sessions = <<>>

StampStatuses == {"draft", "researching"}

StampCreateBodies ==
    {Merge([title |-> t, websiteId |-> 1], o) :
        t \in Titles, o \in Optional("status", StampStatuses)}

StampUpdateBodies ==
    {[status |-> s] : s \in StampStatuses}
    \cup {[title |-> <<"e">>], [freezeStatus |-> FALSE]}

NextStamp ==
    \/ \E r \in DOMAIN reqs, body \in StampCreateBodies : CreatePostCheck(r, body)
    \/ \E r \in DOMAIN reqs : CreatePostInsert(r)
    \/ \E r \in DOMAIN reqs, id \in Ids, body \in StampUpdateBodies : UpdatePostFetch(r, id, body)
    \/ \E r \in DOMAIN reqs : UpdatePostCheckSlug(r)
    \/ \E r \in DOMAIN reqs : UpdatePostWrite(r)
    \/ Tick

SpecStamp == InitStamp /\ [][NextStamp]_vars

---------------------------------------------------------------------------
(* SpecSlug: slugs are resolved one request at a time, in a store where    *)
(* the slug s and its first retry value are taken, while the clock runs.   *)

SlugS == <<"s">>

InitSlug ==
    /\ websites = <<SiteA, SiteB>>
    /\ series = <<[title |-> <<"a">>, slug |-> SlugS, websiteId |-> 1],
                  [title |-> <<"b">>, slug |-> WithSuffix(SlugS, 1), websiteId |-> 1]>>
    /\ posts = <<>>
    /\ seq = [websites |-> 2, series |-> 2, posts |-> 0]
    /\ now = ClockStart
    /\ reqs = <<Idle>>
    /\ last = NoResponse
    /\ sessions = <<>>

SlugSeriesBodies == {[title |-> t, websiteId |-> 2, slug |-> SlugS] : t \in Titles}

SlugWebsiteBodies == {[slug |-> <<"a">>], [slug |-> <<"b">>], [name |-> <<"A">>]}

NextSlug ==
    \/ \E r \in DOMAIN reqs, body \in SlugSeriesBodies : CreateSeriesStart(r, body)
    \/ \E r \in DOMAIN reqs : CreateSeriesCheckTitle(r)
    \/ \E r \in DOMAIN reqs : CreateSeriesInsert(r)
    \/ \E r \in DOMAIN reqs, id \in WebsiteIds, body \in SlugWebsiteBodies : UpdateWebsiteFetch(r, id, body)
    \/ \E r \in DOMAIN reqs : UpdateWebsiteCheckName(r)
    \/ \E r \in DOMAIN reqs : UpdateWebsiteWrite(r)
    \/ \E r \in DOMAIN reqs : EnsureUniqueSlugStep(r)
    \/ Tick

SpecSlug == InitSlug /\ [][NextSlug]_vars

---------------------------------------------------------------------------
(* SpecRace: two requests at a time create series, posts and websites.     *)

InitRace ==
    /\ websites = <<SiteA, SiteB>>
    /\ series = <<>>
    /\ posts = <<>>
    /\ seq = [websites |-> 2, series |-> 0, posts |-> 0]
    /\ now = ClockStart
    /\ reqs = [r \in Slots |-> Idle]
    /\ last = NoResponse
    /\ sessions = <<>>

RaceSeriesBodies == {[title |-> <<"a">>, websiteId |-> w] : w \in WebsiteIds}
RacePostBodies == {[title |-> <<"a">>, websiteId |-> w] : w \in WebsiteIds}
RaceWebsiteBodies == {[name |-> <<"E_acute">>], [name |-> <<"e">>]}

NextRace ==
    \/ \E r \in DOMAIN reqs, body \in RaceSeriesBodies : CreateSeriesStart(r, body)
    \/ \E r \in DOMAIN reqs : CreateSeriesCheckTitle(r)
    \/ \E r \in DOMAIN reqs : CreateSeriesInsert(r)
    \/ \E r \in DOMAIN reqs, body \in RacePostBodies : CreatePostCheck(r, body)
    \/ \E r \in DOMAIN reqs : CreatePostInsert(r)
    \/ \E r \in DOMAIN reqs, body \in RaceWebsiteBodies : CreateWebsiteStart(r, body)
    \/ \E r \in DOMAIN reqs : CreateWebsiteCheckName(r)
    \/ \E r \in DOMAIN reqs : CreateWebsiteInsert(r)
    \/ \E r \in DOMAIN reqs : EnsureUniqueSlugStep(r)

SpecRace == InitRace /\ [][NextRace]_vars

---------------------------------------------------------------------------
(* SpecReport: reports are computed while posts are updated.               *)

ReportStatuses == {"draft", "videoGenerated"}
ReportOnYoutube == {"null", "none", "public"}
ReportOnX == {"none", "public"}

ReportRow(i, status, onYoutube, onX) ==
    [websiteId |-> 1,
     seriesId |-> IF i = 1 THEN 1 ELSE NULL,
     title |-> <<"t">> \o Digits(i),
     slug |-> <<"t">> \o Digits(i),
     statusOnYoutube |-> onYoutube,
     statusOnWebsite |-> "none",
     statusOnX |-> onX,
     freezeStatus |-> TRUE,
     status |-> status,
     scheduledPublishAt |-> NULL,
     lastStatusChangeAt |-> ClockStart,
     createdAt |-> ClockStart,
     updatedAt |-> ClockStart]

InitReport ==
    /\ websites = <<SiteA, SiteB>>
    /\ series = <<[title |-> <<"a">>, slug |-> <<"a">>, websiteId |-> 1]>>
    /\ \E st \in [1..ReportPosts -> ReportStatuses],
          yt \in [1..ReportPosts -> ReportOnYoutube],
          x \in [1..ReportPosts -> ReportOnX] :
          posts = [i \in 1..ReportPosts |-> ReportRow(i, st[i], yt[i], x[i])]
    /\ seq = [websites |-> 2, series |-> 1, posts |-> ReportPosts]
    /\ now = ClockStart
    /\ reqs = [r \in Slots |-> Idle]
    /\ last = NoResponse
    /\ sessions = <<>>

ReportUpdates ==
    {[statusOnYoutube |-> "public"], [statusOnX |-> "public"]}

NextReport ==
    \/ \E r \in DOMAIN reqs : WhatsNextStart(r)
    \/ \E r \in DOMAIN reqs : WhatsNextQuery(r)
    \/ \E r \in DOMAIN reqs, id \in 1..ReportPosts, body \in ReportUpdates : UpdatePostFetch(r, id, body)
    \/ \E r \in DOMAIN reqs : UpdatePostWrite(r)

SpecReport == InitReport /\ [][NextReport]_vars

---------------------------------------------------------------------------
(* SpecTriage: reports over tables that hold posts of every section, with  *)
(* no write meanwhile.  Posts 1..TriageDrafts are in series 1, the first   *)
(* of them drafts and the others researched; one more post varies.         *)

TriageDrafts == 4

\* the orders in time of the posts of series 1: rising, falling, mixed,
\* and in pairs of one instant
TriageOrders ==
    {[i \in 1..TriageDrafts |-> i],
     [i \in 1..TriageDrafts |-> TriageDrafts + 1 - i],
     [i \in 1..TriageDrafts |-> (2 * i) % (TriageDrafts + 1)],
     [i \in 1..TriageDrafts |-> (i + 1) \div 2]}

TriageInstant(offset) == ClockStart - (TriageDrafts + 1) + offset

\* the stored scheduled_publish_at of the posts of series 1: none, the
\* text createPost stores, the text of the store, and a mix
TriageSchedules ==
    {[i \in 1..TriageDrafts |-> NULL],
     [i \in 1..TriageDrafts |-> 0 - (ClockStart + i)],
     [i \in 1..TriageDrafts |-> ClockStart + i],
     [i \in 1..TriageDrafts |-> IF i % 2 = 0 THEN 0 - (ClockStart + i) ELSE NULL]}

TriageRow(i, websiteId, seriesId, status, channels, scheduled, created, updated) ==
    [websiteId |-> websiteId,
     seriesId |-> seriesId,
     title |-> <<"t">> \o Digits(i),
     slug |-> <<"t">> \o Digits(i),
     statusOnYoutube |-> channels[1],
     statusOnWebsite |-> channels[2],
     statusOnX |-> channels[3],
     freezeStatus |-> TRUE,
     status |-> status,
     scheduledPublishAt |-> scheduled,
     lastStatusChangeAt |-> created,
     createdAt |-> created,
     updatedAt |-> updated]

NoChannels == <<"null", "null", "null">>
AllNone == <<"none", "none", "none">>

\* the post that varies: its series, status and channel statuses
TriageExtras ==
    {<<NULL, "draft", NoChannels>>,
     <<2, "draft", NoChannels>>,
     <<NULL, "materialGenerated", AllNone>>,
     <<NULL, "generatingVideo", AllNone>>,
     <<NULL, "videoGenerated", AllNone>>,
     <<2, "videoGenerated", <<"none", "public", "none">>>>,
     <<NULL, "videoGenerated", <<"null", "none", "none">>>>}

InitTriage ==
    /\ websites = <<SiteA, SiteB>>
    /\ series = <<[title |-> <<"a">>, slug |-> <<"a">>, websiteId |-> 1],
                  [title |-> <<"b">>, slug |-> <<"b">>, websiteId |-> 2]>>
    /\ \/ posts = <<>>
       \/ \E drafts \in 0..TriageDrafts, created \in TriageOrders,
             updated \in TriageOrders, scheduled \in TriageSchedules,
             extra \in TriageExtras :
             posts = [i \in 1..(TriageDrafts + 1) |->
                        IF i <= TriageDrafts
                        THEN TriageRow(i, 1, 1,
                                       IF i <= drafts THEN "draft" ELSE "researched",
                                       NoChannels, scheduled[i],
                                       TriageInstant(created[i]),
                                       TriageInstant(updated[i]))
                        ELSE TriageRow(i, IF extra[1] = NULL THEN 1 ELSE extra[1],
                                       extra[1], extra[2], extra[3], NULL,
                                       ClockStart, ClockStart)]
    /\ seq = [websites |-> 2, series |-> 2, posts |-> Len(posts)]
    /\ now = ClockStart
    /\ reqs = <<Idle>>
    /\ last = NoResponse
    /\ sessions = <<>>

NextTriage ==
    \/ \E r \in DOMAIN reqs : WhatsNextStart(r)
    \/ \E r \in DOMAIN reqs : WhatsNextQuery(r)

SpecTriage == InitTriage /\ [][NextTriage]_vars

---------------------------------------------------------------------------
(* SpecDelete: websites and series are deleted while posts are created and *)
(* series change website, two requests at a time.                          *)

InitDelete ==
    /\ websites = <<SiteA, SiteB>>
    /\ series = <<[title |-> <<"a">>, slug |-> <<"a">>, websiteId |-> 1],
                  [title |-> <<"b">>, slug |-> <<"b">>, websiteId |-> 2]>>
    /\ posts = <<>>
    /\ seq = [websites |-> 2, series |-> 2, posts |-> 0]
    /\ now = ClockStart
    /\ reqs = [r \in Slots |-> Idle]
    /\ last = NoResponse
    /\ sessions = <<>>

DeletePostBodies ==
    {Merge([title |-> <<"a">>, websiteId |-> w], o) :
        w \in WebsiteIds, o \in Optional("seriesId", SeriesIds)}

DeleteSeriesBodies == {[websiteId |-> w] : w \in WebsiteIds}

NextDelete ==
    \/ \E r \in DOMAIN reqs, id \in Ids : DeleteWebsiteFetch(r, id)
    \/ \E r \in DOMAIN reqs : DeleteWebsiteCheckPosts(r)
    \/ \E r \in DOMAIN reqs : DeleteWebsiteCheckSeries(r)
    \/ \E r \in DOMAIN reqs : DeleteWebsiteRun(r)
    \/ \E r \in DOMAIN reqs, id \in Ids : DeleteSeriesFetch(r, id)
    \/ \E r \in DOMAIN reqs : DeleteSeriesCheckPosts(r)
    \/ \E r \in DOMAIN reqs : DeleteSeriesRun(r)
    \/ \E r \in DOMAIN reqs, body \in DeletePostBodies : CreatePostCheck(r, body)
    \/ \E r \in DOMAIN reqs : CreatePostInsert(r)
    \/ \E r \in DOMAIN reqs, id \in SeriesIds, body \in DeleteSeriesBodies :
          UpdateSeriesFetch(r, id, body)
    \/ \E r \in DOMAIN reqs : UpdateSeriesCheckWebsite(r)
    \/ \E r \in DOMAIN reqs : UpdateSeriesCheckTitle(r)
    \/ \E r \in DOMAIN reqs : UpdateSeriesWrite(r)

SpecDelete == InitDelete /\ [][NextDelete]_vars

---------------------------------------------------------------------------
(* SpecSlugify: generateSlug is applied to a text, and then to its own     *)
(* result.                                                                 *)

TextLen == 4

\* a letter in both cases, a digit, the space, the hyphen, a punctuation
\* mark, a precomposed accented letter and the combining accent
TextChars == {"a", "A", "1", " ", "-", "!", "E_acute", "U+0301"}

Texts == UNION {[1..n -> TextChars] : n \in 0..TextLen}

InitSlugify ==
    /\ websites = <<>>
    /\ series = <<>>
    /\ posts = <<>>
    /\ seq = [websites |-> 0, series |-> 0, posts |-> 0]
    /\ now = ClockStart
    /\ \E text \in Texts :
          reqs = <<[op |-> "generateSlug", pc |-> "text", input |-> text, text |-> text]>>
    /\ last = NoResponse
    /\ sessions = <<>>

\* a caller passes its text to generateSlug
GenerateSlugOnce(r) ==
    /\ reqs[r].op = "generateSlug"
    /\ reqs[r].pc = "text"
    /\ Continue(r, [reqs[r] EXCEPT !.pc = "slug", !.text = generateSlug(reqs[r].text)])
    /\ UNCHANGED <<sessions, websites, series, posts, seq, now>>

\* a caller passes a slug that generateSlug returned to generateSlug
GenerateSlugTwice(r) ==
    /\ reqs[r].op = "generateSlug"
    /\ reqs[r].pc = "slug"
    /\ Continue(r, [reqs[r] EXCEPT !.pc = "again", !.text = generateSlug(reqs[r].text)])
    /\ UNCHANGED <<sessions, websites, series, posts, seq, now>>

NextSlugify ==
    \/ \E r \in DOMAIN reqs : GenerateSlugOnce(r)
    \/ \E r \in DOMAIN reqs : GenerateSlugTwice(r)

SpecSlugify == InitSlugify /\ [][NextSlugify]_vars

(* ensureUniqueSlug called with equality filters: the last parameter of the
   function, which no handler of the repository passes. *)
ScopeSlugs == {<<"a">>, <<"b">>}

ScopeConditions == {<<>>} \cup {[websiteId |-> w] : w \in 1..2}

ScopeExcluded == {NULL, 1, 2}

InitScope ==
    /\ websites = <<SiteA, SiteB>>
    /\ series = <<[title |-> <<"a">>, slug |-> <<"a">>, websiteId |-> 1],
                  [title |-> <<"b">>, slug |-> WithSuffix(<<"a">>, 1), websiteId |-> 1],
                  [title |-> <<"c">>, slug |-> <<"b">>, websiteId |-> 2]>>
    /\ posts = <<>>
    /\ seq = [websites |-> 2, series |-> 3, posts |-> 0]
    /\ now = ClockStart
    /\ reqs = <<Idle>>
    /\ last = NoResponse
    /\ sessions = <<>>

\* slugify.ts lines 31-42: a call that passes additionalConditions
EnsureUniqueSlugCall(r, initialSlug, excludeId, conds) ==
    /\ reqs[r].op = "idle"
    /\ Continue(r, [op |-> "ensureUniqueSlug", pc |-> "unique", ret |-> "returned",
                    eus |-> [initialSlug |-> initialSlug, currentSlug |-> initialSlug,
                             attempt |-> 0, table |-> "series",
                             excludeId |-> excludeId, conds |-> conds]])
    /\ UNCHANGED <<sessions, websites, series, posts, seq, now>>

\* the value handed back to the caller
EnsureUniqueSlugReturn(r) ==
    /\ reqs[r].op = "ensureUniqueSlug"
    /\ reqs[r].pc = "returned"
    /\ Reply(r, [op |-> "ensureUniqueSlug", code |-> 200, msg |-> "", err |-> NoError,
                 slug |-> reqs[r].resolved.slug])
    /\ UNCHANGED <<sessions, websites, series, posts, seq, now>>

NextScope ==
    \/ \E r \in DOMAIN reqs, initialSlug \in ScopeSlugs, excludeId \in ScopeExcluded,
          conds \in ScopeConditions : EnsureUniqueSlugCall(r, initialSlug, excludeId, conds)
    \/ \E r \in DOMAIN reqs : EnsureUniqueSlugStep(r)
    \/ \E r \in DOMAIN reqs : EnsureUniqueSlugReturn(r)

SpecScope == InitScope /\ [][NextScope]_vars

(* updatePost on a store of two posts: every status as the target, a channel
   status, and a title whose slug is free. *)
UpdateTargets ==
    {[status |-> s] : s \in Statuses}
    \cup {[statusOnX |-> "public"], [title |-> <<"e">>]}

InitUpdate ==
    /\ websites = <<SiteA, SiteB>>
    /\ series = <<[title |-> <<"a">>, slug |-> <<"a">>, websiteId |-> 1]>>
    /\ posts = <<ReportRow(1, "draft", "none", "none"),
                 ReportRow(2, "videoGenerated", "public", "none")>>
    /\ seq = [websites |-> 2, series |-> 1, posts |-> 2]
    /\ now = ClockStart
    /\ reqs = <<Idle>>
    /\ last = NoResponse
    /\ sessions = <<>>

NextUpdate ==
    \/ \E r \in DOMAIN reqs, id \in Ids, body \in UpdateTargets : UpdatePostFetch(r, id, body)
    \/ \E r \in DOMAIN reqs : UpdatePostCheckSlug(r)
    \/ \E r \in DOMAIN reqs : UpdatePostWrite(r)
    \/ Tick

SpecUpdate == InitUpdate /\ [][NextUpdate]_vars

(* Writes whose title has no letter or digit, or whose slug is the empty
   string. *)
BlankTitle == <<"!">>

EmptyCreatePostBodies == {[title |-> t, websiteId |-> 1] : t \in {BlankTitle, <<"a">>}}

EmptyUpdatePostBodies == {[title |-> BlankTitle], [title |-> <<"b">>], [slug |-> <<>>]}

EmptyCreateSeriesBodies == {[title |-> t, websiteId |-> 1] : t \in {BlankTitle, <<"b">>}}

NextEmpty ==
    \/ \E r \in DOMAIN reqs, body \in EmptyCreatePostBodies : CreatePostCheck(r, body)
    \/ \E r \in DOMAIN reqs : CreatePostInsert(r)
    \/ \E r \in DOMAIN reqs, id \in Ids, body \in EmptyUpdatePostBodies : UpdatePostFetch(r, id, body)
    \/ \E r \in DOMAIN reqs : UpdatePostCheckSlug(r)
    \/ \E r \in DOMAIN reqs : UpdatePostWrite(r)
    \/ \E r \in DOMAIN reqs, body \in EmptyCreateSeriesBodies : CreateSeriesStart(r, body)
    \/ \E r \in DOMAIN reqs : CreateSeriesCheckTitle(r)
    \/ \E r \in DOMAIN reqs : CreateSeriesInsert(r)
    \/ \E r \in DOMAIN reqs : EnsureUniqueSlugStep(r)
    \/ Tick

SpecEmpty == InitStamp /\ [][NextEmpty]_vars

(* deleteSeries racing with the writes that attach a post to a series. *)
AttachCreateBodies ==
    {Merge([title |-> t, websiteId |-> 1], o) :
        t \in Titles, o \in Optional("seriesId", {1})}

AttachUpdateBodies ==
    {[seriesId |-> sid] : sid \in SeriesIds \cup {NULL}} \cup {[slug |-> <<"b">>]}

NextAttach ==
    \/ \E r \in DOMAIN reqs, id \in Ids : DeleteSeriesFetch(r, id)
    \/ \E r \in DOMAIN reqs : DeleteSeriesCheckPosts(r)
    \/ \E r \in DOMAIN reqs : DeleteSeriesRun(r)
    \/ \E r \in DOMAIN reqs, body \in AttachCreateBodies : CreatePostCheck(r, body)
    \/ \E r \in DOMAIN reqs : CreatePostInsert(r)
    \/ \E r \in DOMAIN reqs, id \in Ids, body \in AttachUpdateBodies : UpdatePostFetch(r, id, body)
    \/ \E r \in DOMAIN reqs : UpdatePostCheckSlug(r)
    \/ \E r \in DOMAIN reqs : UpdatePostWrite(r)

SpecAttach == InitDelete /\ [][NextAttach]_vars

---------------------------------------------------------------------------
(* Sessions: ensureAuth (middlewares/auth.middleware.ts), getSessionHandler
   (handlers/auth/session.handler.ts) and logoutHandler
   (handlers/auth/logout.handler.ts), one statement of the store a step.
   A request carries the value of its session_token cookie. *)

\* auth.middleware.ts line 50: one day in milliseconds
sessionDurationMs == 60 * 60 * 24 * 1000

\* getCookie(c, 'session_token') of a request without the cookie
NoToken == ""

\* the tokens login has issued, and a token it never issued
Tokens == {"t1", "t2"}
Cookies == Tokens \cup {"t3", NoToken}

\* tables users and user_roles, which no handler modelled here writes
Users == {1}
RoleOf(userId) == IF userId \in Users THEN "admin" ELSE "null"

\* a response to a request that carried token
TokenResponse(op, code, msg, token) ==
    [op |-> op, code |-> code, msg |-> msg, err |-> NoError, token |-> token]

\* the answer of getSessionHandler
SessionResponse(code, token, isActive) ==
    [op |-> "getSession", code |-> code, msg |-> "", err |-> NoError,
     token |-> token, isActive |-> isActive]

\* a session that never expires
ExpiredNever(expiresAt) == FALSE

\* auth.middleware.ts line 39, session.handler.ts line 43: expiresAt < now
Expired(expiresAt) == expiresAt < now

\* a DELETE that removes nothing
DeleteSessionNothing(token) == sessions

\* logout.handler.ts lines 14-15: DELETE FROM user_sessions WHERE session_token = ?
DeleteSession(token) == Remove(sessions, token)

\* auth.middleware.ts lines 53-54: UPDATE user_sessions SET expires_at = ?
\* WHERE session_token = ?
RenewSession(token, expiresAt) ==
    IF token \in DOMAIN sessions
    THEN [sessions EXCEPT ![token].expiresAt = expiresAt]
    ELSE sessions

\* auth.middleware.ts lines 17-51: the cookie, the SELECT and the expiry
\* check; the new expiry is computed before the UPDATE is awaited
EnsureAuthCheck(r, token) ==
    /\ reqs[r] = Idle
    /\ IF token = NoToken
       THEN Reply(r, TokenResponse("protected", 401,
                "Unauthorized: Missing session token.", token))
       ELSE IF token \notin DOMAIN sessions
       THEN Reply(r, TokenResponse("protected", 401,
                "Unauthorized: Invalid session token.", token))
       ELSE IF Expired(sessions[token].expiresAt)
       THEN Reply(r, TokenResponse("protected", 401,
                "Unauthorized: Session expired.", token))
       ELSE Continue(r, [op |-> "protected", pc |-> "renew", token |-> token,
                         newExpiresAt |-> now + sessionDurationMs])
    /\ UNCHANGED <<websites, series, posts, sessions, seq, now>>

\* auth.middleware.ts lines 53-65: the sliding renewal
EnsureAuthRenew(r) ==
    /\ reqs[r].op = "protected"
    /\ reqs[r].pc = "renew"
    /\ sessions' = RenewSession(reqs[r].token, reqs[r].newExpiresAt)
    /\ Continue(r, [reqs[r] EXCEPT !.pc = "handler"])
    /\ UNCHANGED <<websites, series, posts, seq, now>>

\* auth.middleware.ts line 67: next(), the handler of the protected route
ProtectedHandler(r) ==
    /\ reqs[r].op = "protected"
    /\ reqs[r].pc = "handler"
    /\ Reply(r, TokenResponse("protected", 200, "", reqs[r].token))
    /\ UNCHANGED <<websites, series, posts, sessions, seq, now>>

\* session.handler.ts lines 23-48
GetSessionCheck(r, token) ==
    /\ reqs[r] = Idle
    /\ IF token = NoToken \/ token \notin DOMAIN sessions
       THEN Reply(r, SessionResponse(200, token, FALSE))
       ELSE IF Expired(sessions[token].expiresAt)
       THEN Reply(r, SessionResponse(200, token, FALSE))
       ELSE Continue(r, [op |-> "getSession", pc |-> "user", token |-> token,
                         userId |-> sessions[token].userId])
    /\ UNCHANGED <<websites, series, posts, sessions, seq, now>>

\* session.handler.ts lines 50-60
GetSessionUser(r) ==
    /\ reqs[r].op = "getSession"
    /\ reqs[r].pc = "user"
    /\ IF reqs[r].userId \notin Users
       THEN Reply(r, SessionResponse(500, reqs[r].token, FALSE))
       ELSE Continue(r, [reqs[r] EXCEPT !.pc = "role"])
    /\ UNCHANGED <<websites, series, posts, sessions, seq, now>>

\* session.handler.ts lines 62-84
GetSessionRole(r) ==
    /\ reqs[r].op = "getSession"
    /\ reqs[r].pc = "role"
    /\ IF RoleOf(reqs[r].userId) = "null"
       THEN Reply(r, SessionResponse(500, reqs[r].token, FALSE))
       ELSE Reply(r, SessionResponse(200, reqs[r].token, TRUE))
    /\ UNCHANGED <<websites, series, posts, sessions, seq, now>>

\* logout.handler.ts lines 9-23: the DELETE of a request that has the cookie
LogoutDelete(r, token) ==
    /\ reqs[r] = Idle
    /\ IF token = NoToken
       THEN /\ Reply(r, TokenResponse("logout", 200, "Logged out successfully.", token))
            /\ UNCHANGED sessions
       ELSE /\ sessions' = DeleteSession(token)
            /\ Continue(r, [op |-> "logout", pc |-> "reply", token |-> token])
    /\ UNCHANGED <<websites, series, posts, seq, now>>

\* logout.handler.ts lines 25-28
LogoutReturn(r) ==
    /\ reqs[r].op = "logout"
    /\ reqs[r].pc = "reply"
    /\ Reply(r, TokenResponse("logout", 200, "Logged out successfully.", reqs[r].token))
    /\ UNCHANGED <<websites, series, posts, sessions, seq, now>>

\* login has stored two sessions of user 1; that of t2 ends as the clock
\* moves on
InitAuth ==
    /\ websites = <<SiteA, SiteB>>
    /\ series = <<>>
    /\ posts = <<>>
    /\ sessions = [t \in Tokens |->
                      [userId |-> 1,
                       expiresAt |-> IF t = "t1" THEN ClockStart + sessionDurationMs
                                     ELSE ClockStart]]
    /\ seq = [websites |-> 2, series |-> 0, posts |-> 0]
    /\ now = ClockStart
    /\ reqs = [r \in Slots |-> Idle]
    /\ last = NoResponse

NextAuth ==
    \/ \E r \in DOMAIN reqs, token \in Cookies : EnsureAuthCheck(r, token)
    \/ \E r \in DOMAIN reqs : EnsureAuthRenew(r)
    \/ \E r \in DOMAIN reqs : ProtectedHandler(r)
    \/ \E r \in DOMAIN reqs, token \in Cookies : GetSessionCheck(r, token)
    \/ \E r \in DOMAIN reqs : GetSessionUser(r)
    \/ \E r \in DOMAIN reqs : GetSessionRole(r)
    \/ \E r \in DOMAIN reqs, token \in Cookies : LogoutDelete(r, token)
    \/ \E r \in DOMAIN reqs : LogoutReturn(r)
    \/ Tick

SpecAuth == InitAuth /\ [][NextAuth]_vars

---------------------------------------------------------------------------
(* Properties of the write path. *)

\* the step in which the request of slot r returns
Returns(r) == reqs[r] # Idle /\ reqs'[r] = Idle

OwnsPosts(seriesId) == \E p \in DOMAIN posts : posts[p].seriesId = seriesId

\* C1: every stored post that has a series has the website of that series.
C1_PostSiteIsSeriesSite ==
    \A p \in DOMAIN posts :
        posts[p].seriesId # NULL =>
            /\ posts[p].seriesId \in DOMAIN series
            /\ posts[p].websiteId = series[posts[p].seriesId].websiteId

\* a post sits in a series, an update having just attached or moved one,
\* while a series has changed its website
C1_Witness ==
    /\ \E p \in DOMAIN posts : posts[p].seriesId # NULL
    /\ last.op = "updatePost" /\ last.code = 200
    /\ series[2].websiteId = 1

\* the INSERT of a createPost names a series of another website
CreatesMismatched(q) ==
    /\ q.op = "createPost" /\ q.pc = "insert"
    /\ Has(q.data, "seriesId")
    /\ q.data.seriesId \in DOMAIN series
    /\ series[q.data.seriesId].websiteId # q.data.websiteId

\* C2: a createPost whose series belongs to another website than the post
\* fails and stores no row: posts is as it was.
C2_MismatchedCreateStoresNothing ==
    [][\A r \in DOMAIN reqs :
          (Returns(r) /\ CreatesMismatched(reqs[r])) =>
              /\ posts' = posts
              /\ seq' = seq
              /\ last'.op = "createPost" /\ last'.code >= 400]_vars

\* a createPost has just been refused by the store for that mismatch
C2_Witness ==
    /\ last.op = "createPost" /\ last.code = 500
    /\ last.err = ShowMismatchError

\* an updateSeries in flight that asks for another, existing website
ChangesSite(q) ==
    /\ q.op = "updateSeries"
    /\ q.id \in DOMAIN series
    /\ Has(q.body, "websiteId")
    /\ q.body.websiteId # series[q.id].websiteId
    /\ q.body.websiteId \in DOMAIN websites

Rejected(id) == last'.code >= 400 /\ series'[id].websiteId = series[id].websiteId
Moved(q) == last'.code = 200 /\ series'[q.id].websiteId = q.body.websiteId

\* C3 as stated: the change fails while the series owns a post, and
\* succeeds when it owns none.
C3_AsStated ==
    [][\A r \in DOMAIN reqs :
          (Returns(r) /\ ChangesSite(reqs[r])) =>
              IF OwnsPosts(reqs[r].id) THEN Rejected(reqs[r].id) ELSE Moved(reqs[r])]_vars

\* the title the series will have is taken in the website it moves to
TitleTakenThere(q) ==
    SeriesTitleInWebsite(OrElse(q.body, "title", series[q.id].title),
                         q.body.websiteId, q.id)

\* C3, amended: the change fails while the series owns a post; when it
\* owns none it succeeds unless another series of the new website has the
\* same title, and then it fails too.
C3_SeriesLock ==
    [][\A r \in DOMAIN reqs :
          (Returns(r) /\ ChangesSite(reqs[r])) =>
              IF OwnsPosts(reqs[r].id) \/ TitleTakenThere(reqs[r])
              THEN Rejected(reqs[r].id)
              ELSE Moved(reqs[r])]_vars

\* a series has moved to the other website, and the store has just refused
\* to move a series that owns a post
C3_Witness ==
    /\ last.op = "updateSeries" /\ last.err = SeriesLockedError
    /\ \E id \in DOMAIN series : OwnsPosts(id)
    /\ series[2].websiteId = 1

---------------------------------------------------------------------------
(* Properties of the report. *)

\* a report has just been answered with every query run on one store
QuietReport == last.op = "whatsNext" /\ last.code = 200 /\ last.quiet

\* C4: in a report computed on a store that no write changed meanwhile, a
\* post of status videoGenerated with the YouTube and X status none is in
\* toPublishOnYouTube and not in toPublishOnX, and every post in
\* toPublishOnX has the YouTube status public.
C4_PublishGating ==
    QuietReport =>
        /\ \A p \in DOMAIN posts :
              (/\ posts[p].status = "videoGenerated"
               /\ posts[p].statusOnYoutube = "none"
               /\ posts[p].statusOnX = "none") =>
                  /\ p \in PostIds(last.body.toPublishOnYouTube)
                  /\ p \notin PostIds(last.body.toPublishOnX)
        /\ \A p \in PostIds(last.body.toPublishOnX) :
              posts[p].statusOnYoutube = "public"

\* such a report, with a post in each of the two sections
C4_Witness ==
    /\ QuietReport
    /\ \E p \in PostIds(last.body.toPublishOnYouTube) : posts[p].statusOnX = "none"
    /\ last.body.toPublishOnX # <<>>

---------------------------------------------------------------------------
(* Properties of the slug resolver. *)

\* the rows of table tableName, other than row except, that hold slug
Holders(tableName, slug, except) ==
    LET tbl == IF tableName = "websites" THEN websites
               ELSE IF tableName = "series" THEN series ELSE posts
    IN  {id \in DOMAIN tbl : id # except /\ tbl[id].slug = slug}

NoSharedSlug ==
    \A t \in {"websites", "series", "posts"} :
        LET tbl == IF t = "websites" THEN websites
                   ELSE IF t = "series" THEN series ELSE posts
        IN  \A i, j \in DOMAIN tbl : tbl[i].slug = tbl[j].slug => i = j

\* the INSERT of a create request, and the table and slug it is about
Inserts(q) == q.op \in {"createPost", "createSeries", "createWebsite"} /\ q.pc = "insert"
InsertTable(q) ==
    CASE q.op = "createPost" -> "posts"
      [] q.op = "createSeries" -> "series"
      [] q.op = "createWebsite" -> "websites"
InsertSlug(q) == IF q.op = "createPost" THEN q.data.slug ELSE q.resolved.slug

\* C5: no two rows of a table ever share a slug, and a create request whose
\* INSERT finds its slug taken stores nothing and answers with a failure.
C5_OneInsertWins ==
    /\ []NoSharedSlug
    /\ [][\A r \in DOMAIN reqs :
            (Inserts(reqs[r]) /\ Returns(r)
               /\ Holders(InsertTable(reqs[r]), InsertSlug(reqs[r]), NULL) # {}) =>
                /\ <<websites, series, posts>>' = <<websites, series, posts>>
                /\ last'.op = reqs[r].op /\ last'.code >= 400]_vars

\* two createSeries raced for one slug: one row has it, and the other
\* request has just been refused by the UNIQUE constraint
C5_Witness ==
    /\ last.op = "createSeries" /\ last.code = 400
    /\ last.err = UniqueSlugError("series")
    /\ \E id \in DOMAIN series : series[id].slug = <<"a">>

\* the step in which ensureUniqueSlug returns to the handler of slot r
Resolves(r) ==
    /\ reqs[r].op # "idle" /\ reqs[r].pc = "unique"
    /\ reqs'[r].op # "idle" /\ reqs'[r].pc # "unique"

\* a step of the loop after which the loop goes on
Retries(r) ==
    /\ reqs[r].op # "idle" /\ reqs[r].pc = "unique"
    /\ reqs'[r] # reqs[r]
    /\ reqs'[r].op # "idle" /\ reqs'[r].pc = "unique"

\* C6 as stated: every value ensureUniqueSlug returns is held by no row of
\* the table (but the excluded one) at the moment it returns.
C6_AsStated ==
    [][\A r \in DOMAIN reqs :
          Resolves(r) =>
              Holders(reqs[r].eus.table, reqs'[r].resolved.slug,
                      reqs[r].eus.excludeId) = {}]_vars

\* C6, amended: every value ensureUniqueSlug returns out of an existence
\* check is held by no row of the table (but the excluded one) at that
\* check; so a second call, made after the first result is stored, returns
\* from a check only a value that differs from every stored slug.
C6_CheckedValueIsFree ==
    [][\A r \in DOMAIN reqs :
          (Resolves(r) /\ reqs'[r].resolved.checked) =>
              Holders(reqs[r].eus.table, reqs'[r].resolved.slug,
                      reqs[r].eus.excludeId) = {}]_vars

\* a second createSeries for the slug s, made after the first one has
\* stored its row, holds a checked value that no row has
C6_Witness ==
    /\ seq.series >= 3
    /\ \E r \in DOMAIN reqs :
          /\ reqs[r].op = "createSeries" /\ reqs[r].pc = "insert"
          /\ reqs[r].resolved.checked
          /\ reqs[r].resolved.checks > 1
          /\ reqs[r].resolved.slug # series[3].slug

\* C7: ensureUniqueSlug makes at most MAX_ATTEMPTS existence checks; when
\* all of them collide it returns, without an error, the candidate, a
\* hyphen and the current time in milliseconds.
C7_TenChecksThenTimestamp ==
    /\ [](\A r \in DOMAIN reqs :
            (reqs[r].op # "idle" /\ reqs[r].pc = "unique") =>
                reqs[r].eus.attempt < MAX_ATTEMPTS)
    /\ [][\A r \in DOMAIN reqs :
            /\ Retries(r) => reqs'[r].eus.attempt = reqs[r].eus.attempt + 1
            /\ (reqs[r].op # "idle" /\ reqs[r].pc = "unique") =>
                   /\ reqs'[r].op # "idle"
                   /\ last'.code = 0
            /\ Resolves(r) =>
                   /\ reqs'[r].resolved.checks = reqs[r].eus.attempt + 1
                   /\ reqs'[r].resolved.checks <= MAX_ATTEMPTS
                   /\ (Holders(reqs[r].eus.table, reqs[r].eus.currentSlug,
                               reqs[r].eus.excludeId) # {}) =>
                          /\ reqs'[r].resolved.checks = MAX_ATTEMPTS
                          /\ reqs'[r].resolved.slug =
                                 reqs[r].eus.initialSlug \o <<"-">> \o Digits(now)]_vars

\* ten checks collided and the timestamp value came back
C7_Witness ==
    \E r \in DOMAIN reqs :
        /\ reqs[r].op = "createSeries" /\ reqs[r].pc = "insert"
        /\ reqs[r].resolved.checks = MAX_ATTEMPTS
        /\ ~reqs[r].resolved.checked
        /\ reqs[r].resolved.slug = SlugS \o <<"-">> \o Digits(now)

\* the number a sequence of digits writes
RECURSIVE Number(_)
Number(ds) ==
    IF ds = <<>> THEN 0
    ELSE 10 * Number(SubSeq(ds, 1, Len(ds) - 1))
         + (CHOOSE d \in 0..9 : Digits(d) = <<ds[Len(ds)]>>)

\* value is candidate, a hyphen and n written in decimal, lo <= n <= hi
IsSuffixed(value, candidate, lo, hi) ==
    /\ StartsWith(value, candidate \o <<"-">>)
    /\ Len(value) > Len(candidate) + 1
    /\ LET ds == SubSeq(value, Len(candidate) + 2, Len(value))
       IN  /\ \A i \in DOMAIN ds : ds[i] \in DigitChars
           /\ Digits(Number(ds)) = ds
           /\ Number(ds) >= lo /\ Number(ds) <= hi

\* C8: every value tried after a collision is the original candidate with
\* one suffix -n, 1 <= n <= 999, and every value returned is the candidate,
\* such a retry value, or the candidate with the timestamp suffix.
C8_RetryFromCandidate ==
    [][\A r \in DOMAIN reqs :
          /\ Retries(r) =>
                 IsSuffixed(reqs'[r].eus.currentSlug, reqs[r].eus.initialSlug,
                            1, RANDOM_RANGE)
          /\ Resolves(r) =>
                 \/ reqs'[r].resolved.slug = reqs[r].eus.initialSlug
                 \/ IsSuffixed(reqs'[r].resolved.slug, reqs[r].eus.initialSlug,
                               1, RANDOM_RANGE)
                 \/ reqs'[r].resolved.slug =
                        reqs[r].eus.initialSlug \o <<"-">> \o Digits(now)]_vars

\* a retry value came back after two collisions
C8_Witness ==
    \E r \in DOMAIN reqs :
        /\ reqs[r].op = "createSeries" /\ reqs[r].pc = "insert"
        /\ reqs[r].resolved.checked
        /\ reqs[r].resolved.checks >= 3
        /\ reqs[r].resolved.slug = SlugS \o <<"-", "9", "9", "9">>

\* C9: in a call with an excludeId, the first check returns the candidate
\* unchanged when no row but the excluded one holds it, and counts a
\* collision when a row with another id holds it.
C9_OwnRowIsNoCollision ==
    [][\A r \in DOMAIN reqs :
          (/\ reqs[r].op # "idle" /\ reqs[r].pc = "unique"
           /\ reqs'[r] # reqs[r]
           /\ reqs[r].eus.excludeId # NULL
           /\ reqs[r].eus.attempt = 0) =>
              LET e == reqs[r].eus
                  tbl == Table(e.table)
                  holders == {id \in DOMAIN tbl : tbl[id].slug = e.initialSlug}
              IN  IF holders \subseteq {e.excludeId}
                  THEN /\ Resolves(r)
                       /\ reqs'[r].resolved.slug = e.initialSlug
                  ELSE /\ Retries(r)
                       /\ reqs'[r].eus.attempt = 1]_vars

\* an updateWebsite that names the slug its own row holds has got it back
\* unchanged, and an earlier one that asked for the slug of the other
\* website got a suffixed value
C9_Witness ==
    /\ \E r \in DOMAIN reqs :
          /\ reqs[r].op = "updateWebsite" /\ reqs[r].pc = "update"
          /\ reqs[r].resolved.def
          /\ reqs[r].resolved.checks = 1
          /\ reqs[r].resolved.slug = websites[reqs[r].id].slug
    /\ \E id \in DOMAIN websites : websites[id].slug = <<"b", "-", "1">>

---------------------------------------------------------------------------
(* Properties of the timestamps. *)

\* the UPDATE of an updatePost that is about to answer
WritesPost(q) ==
    /\ q.op = "updatePost" /\ q.pc = "update"
    /\ q.id \in DOMAIN posts

\* C10: a successful updatePost write sets lastStatusChangeAt to the
\* current time when it changes the status of the post, and leaves
\* lastStatusChangeAt as it was when the status stays at its value.
C10_StampIffStatusChanges ==
    [][\A r \in DOMAIN reqs :
          (WritesPost(reqs[r]) /\ Returns(r) /\ last'.code = 200) =>
              LET old == posts[reqs[r].id]
                  new == posts'[reqs[r].id]
              IN  IF new.status # old.status
                  THEN new.lastStatusChangeAt = now
                  ELSE new.lastStatusChangeAt = old.lastStatusChangeAt]_vars


---------------------------------------------------------------------------
(* Properties of the sections of the report. *)

\* the drafts of series sid
SeriesDrafts(sid) ==
    {p \in DOMAIN posts : posts[p].status = "draft" /\ posts[p].seriesId = sid}

\* the groups of the To Research section of the report just answered
ResearchGroups == {last.body.toResearch[g] : g \in DOMAIN last.body.toResearch}

\* no post left out of the items is newer than a post among them
LatestOf(items, all) ==
    \A p \in items, o \in all \ items : posts[p].createdAt >= posts[o].createdAt

\* C11: in a report, the group of a series that has more than 3 drafts
\* holds exactly 3 of them, the ones created latest, and none of the older
\* drafts; the group of a series that has 1 to 3 drafts holds them all.
C11_ResearchCap ==
    QuietReport =>
        \A sid \in DOMAIN series : SeriesDrafts(sid) # {} =>
            \E g \in ResearchGroups :
                /\ g.seriesId = sid
                /\ PostIds(g.posts) \subseteq SeriesDrafts(sid)
                /\ Len(g.posts) = Cardinality(PostIds(g.posts))
                /\ IF Cardinality(SeriesDrafts(sid)) > 3
                   THEN /\ Len(g.posts) = 3
                        /\ LatestOf(PostIds(g.posts), SeriesDrafts(sid))
                   ELSE PostIds(g.posts) = SeriesDrafts(sid)

\* a report on four drafts of one series, created at four instants, whose
\* group leaves out the oldest, and another series whose only draft is
\* listed
C11_Witness ==
    /\ QuietReport
    /\ Cardinality(SeriesDrafts(1)) = 4
    /\ \A p, o \in SeriesDrafts(1) : p # o => posts[p].createdAt # posts[o].createdAt
    /\ \E g \in ResearchGroups :
          /\ g.seriesId = 1 /\ Len(g.posts) = 3
          /\ \E o \in SeriesDrafts(1) \ PostIds(g.posts) :
                \A p \in PostIds(g.posts) : posts[o].createdAt < posts[p].createdAt
    /\ \E g \in ResearchGroups : g.seriesId = 2 /\ Len(g.posts) = 1

\* the places of the groups of series sid in the To Research section
GroupsOf(sid) ==
    {g \in DOMAIN last.body.toResearch : last.body.toResearch[g].seriesId = sid}

\* C12: the To Research section of a report has exactly one group for each
\* series that has a draft and no group for any other series; every item
\* of a group is a draft of the series of that group; a draft of no series
\* is in no group; no group is empty.
C12_ResearchGroups ==
    QuietReport =>
        /\ \A sid \in DOMAIN series :
              Cardinality(GroupsOf(sid)) = IF SeriesDrafts(sid) # {} THEN 1 ELSE 0
        /\ \A g \in ResearchGroups :
              /\ g.seriesId \in DOMAIN series
              /\ g.posts # <<>>
              /\ \A i \in DOMAIN g.posts :
                    /\ g.posts[i].status = "draft" /\ g.posts[i].seriesId = g.seriesId
                    /\ posts[g.posts[i].id].status = "draft"
                    /\ posts[g.posts[i].id].seriesId = g.seriesId
        /\ \A p \in DOMAIN posts :
              posts[p].seriesId = NULL => \A g \in ResearchGroups : p \notin PostIds(g.posts)

\* a report on a store where series 1 has drafts and a post that is no
\* draft, series 2 has no draft, and a draft is in no series: its one
\* group is that of series 1
C12_Witness ==
    /\ QuietReport
    /\ SeriesDrafts(1) # {} /\ SeriesDrafts(2) = {}
    /\ \E p \in DOMAIN posts : posts[p].seriesId = 1 /\ posts[p].status # "draft"
    /\ \E p \in DOMAIN posts : posts[p].seriesId = NULL /\ posts[p].status = "draft"
    /\ Len(last.body.toResearch) = 1
    /\ last.body.toResearch[1].seriesId = 1

InStatus(status) == {p \in DOMAIN posts : posts[p].status = status}

\* C14: the To Generate Material section of a report lists exactly the
\* posts of status researched, each once, by updatedAt descending.
C14_ToGenerateMaterial ==
    QuietReport =>
        LET rows == last.body.toGenerateMaterial
        IN  /\ PostIds(rows) = InStatus("researched")
            /\ Len(rows) = Cardinality(InStatus("researched"))
            /\ \A i, j \in DOMAIN rows :
                  i < j => posts[rows[i].id].updatedAt >= posts[rows[j].id].updatedAt

\* a report on a store with posts of other statuses and three researched
\* posts, updated at three instants in another order than they were
\* created, listed by the latest update first
C14_Witness ==
    /\ QuietReport
    /\ InStatus("draft") # {} /\ InStatus("videoGenerated") # {}
    /\ LET rows == last.body.toGenerateMaterial
       IN  /\ Len(rows) = 3
           /\ posts[rows[1].id].updatedAt > posts[rows[2].id].updatedAt
           /\ posts[rows[2].id].updatedAt > posts[rows[3].id].updatedAt
           /\ posts[rows[1].id].createdAt < posts[rows[2].id].createdAt

\* the posts of status videoGenerated that are on no channel
Unpublished ==
    {p \in InStatus("videoGenerated") :
        \A channel \in {"statusOnYoutube", "statusOnX", "statusOnWebsite"} :
            posts[p][channel] = "none"}

\* C15: the Waiting & Generating section of a report gives the number of
\* posts of status materialGenerated, the number of status generatingVideo
\* and the number of status videoGenerated whose status on every channel
\* is none; each is 0 when no post qualifies, and all are 0 on an empty
\* table.
C15_WaitingCounts ==
    QuietReport =>
        LET counts == last.body.waitingAndGenerating
        IN  /\ counts.materialGenerated = Cardinality(InStatus("materialGenerated"))
            /\ counts.generatingVideo = Cardinality(InStatus("generatingVideo"))
            /\ counts.generatedNotPublished = Cardinality(Unpublished)
            /\ posts = <<>> =>
                  counts = [materialGenerated |-> 0, generatingVideo |-> 0,
                            generatedNotPublished |-> 0]

\* a report on a store whose one post of status videoGenerated is public
\* on a channel: it counts none
C15_Witness ==
    /\ QuietReport
    /\ InStatus("videoGenerated") # {}
    /\ \E p \in InStatus("videoGenerated") : posts[p].statusOnWebsite = "public"
    /\ last.body.waitingAndGenerating.generatedNotPublished = 0
    /\ last.body.waitingAndGenerating.materialGenerated = 0

\* C16: a report whose query failed is answered 500 and carries no section
\* at all, whatever the other queries returned before; every other
\* answer is a 200 that carries all five sections.  An answer that comes
\* while queries are still to return is the 500.
C16_FailureIsWhole ==
    /\ [](last.op = "whatsNext" =>
            IF last.err # NoError
            THEN last.code = 500 /\ "body" \notin DOMAIN last
            ELSE last.code = 200 /\ DOMAIN last.body = Queries)
    /\ [][\A r \in DOMAIN reqs :
            (/\ reqs[r].op = "whatsNext"
             /\ Returns(r)
             /\ Cardinality(reqs[r].pending) > 1) =>
                /\ last'.code = 500
                /\ "body" \notin DOMAIN last']_vars

\* a report on a store with posts in it has just failed
C16_Witness ==
    /\ last.op = "whatsNext" /\ last.code = 500
    /\ last.err = WhatsNextError
    /\ "body" \notin DOMAIN last
    /\ InStatus("researched") # {} /\ InStatus("draft") # {}

\* the rows of the lists of the report just answered
ReportRows ==
    UNION {Range(last.body[k]) :
              k \in {"toGenerateMaterial", "toPublishOnYouTube", "toPublishOnX"}}
    \cup UNION {Range(g.posts) : g \in ResearchGroups}

\* the stored date cannot be read by safeToISOString
Unreadable(stored) == stored # NULL /\ stored < 0

\* C17: no report fails on the dates of its rows.  A row whose stored
\* scheduledPublishAt cannot be read is listed in its section like any
\* other, with null for that date, and a stored date that can be read is
\* listed as the ISO text of its instant; a row's lastStatusChangeAt,
\* updatedAt and createdAt are the stored instants, or the current time
\* where the stored text cannot be read.
C17_UnreadableDateDefaults ==
    /\ last.op = "whatsNext" => last.err # ZodError
    /\ QuietReport =>
          /\ \A p \in InStatus("researched") :
                Unreadable(posts[p].scheduledPublishAt) =>
                    \E row \in Range(last.body.toGenerateMaterial) :
                        row.id = p /\ row.scheduledPublishAt = NoDate
          /\ \A row \in ReportRows :
                LET stored == posts[row.id]
                    Read(date) == IF Unreadable(date) THEN IsoString(now)
                                  ELSE IsoString(date)
                IN  /\ row.scheduledPublishAt =
                          IF stored.scheduledPublishAt = NULL
                             \/ Unreadable(stored.scheduledPublishAt)
                          THEN NoDate
                          ELSE IsoString(stored.scheduledPublishAt)
                    /\ row.lastStatusChangeAt = Read(stored.lastStatusChangeAt)
                    /\ row.updatedAt = Read(stored.updatedAt)
                    /\ row.createdAt = Read(stored.createdAt)

\* a report has listed a researched post and a draft whose stored
\* scheduledPublishAt cannot be read, and a post whose date can
C17_Witness ==
    /\ QuietReport
    /\ \E row \in Range(last.body.toGenerateMaterial) :
          Unreadable(posts[row.id].scheduledPublishAt) /\ row.scheduledPublishAt = NoDate
    /\ \E g \in ResearchGroups : \E row \in Range(g.posts) :
          Unreadable(posts[row.id].scheduledPublishAt) /\ row.scheduledPublishAt = NoDate
    /\ \E row \in ReportRows : posts[row.id].createdAt > 0 /\ row.createdAt # NoDate

---------------------------------------------------------------------------
(* Properties of the answers to rejected writes. *)

\* the answers a handler gives to a failure it does not tell apart
GenericMessages ==
    {"An unexpected error occurred while creating the post.",
     "An unexpected error occurred while updating the post.",
     "Failed to update series due to a server error."}

\* C18: a write of a post or of a series that the store refuses because
\* the post and its series are of two websites, or because the series
\* owns posts, is answered with a validation or conflict error that names
\* the violation: not the 404 of a missing row, and not the 500 and
\* message of the generic server error.
C18_RejectionIsSpecific ==
    last.err \in {ShowMismatchError, SeriesLockedError} =>
        /\ last.code \in {400, 409, 422}
        /\ last.msg \notin GenericMessages

---------------------------------------------------------------------------
(* Properties of the deletes. *)

\* a series or a post references website id
SiteInUse(id) ==
    \/ \E o \in DOMAIN series : series[o].websiteId = id
    \/ \E p \in DOMAIN posts : posts[p].websiteId = id

\* the step of slot r is a step of its request of handler op
Steps(r, op) == reqs[r].op = op /\ reqs'[r] # reqs[r]

\* the request of slot r is refused in this step
Refused(r) == Returns(r) /\ last'.code >= 400

\* what the step of a deleteWebsite looks at references its website
SeenInUse(q) ==
    \/ q.pc = "posts" /\ \E p \in DOMAIN posts : posts[p].websiteId = q.id
    \/ q.pc = "series" /\ \E o \in DOMAIN series : series[o].websiteId = q.id
    \/ q.pc = "delete" /\ SiteInUse(q.id)

\* C19: no step removes a website that a series or a post references;
\* a deleteWebsite whose check finds a post or a series of the website,
\* or whose DELETE finds either, is refused and leaves the websites as
\* they were.
C19_SiteInUseStays ==
    [][/\ \A id \in DOMAIN websites : SiteInUse(id) => id \in DOMAIN websites'
       /\ \A r \in DOMAIN reqs :
             (Steps(r, "deleteWebsite") /\ SeenInUse(reqs[r])) =>
                 Refused(r) /\ websites' = websites]_vars

\* one website is deleted; the delete of the other has passed its checks
\* and is refused by the store, for a row that came to reference it since
C19_Witness ==
    /\ Cardinality(DOMAIN websites) = 1
    /\ last.op = "deleteWebsite" /\ last.code = 500 /\ last.err = ForeignKeyError
    /\ \E id \in DOMAIN websites : SiteInUse(id)

\* C20: a deleteSeries whose series owns a post, when it checks or when it
\* deletes, is refused and leaves the series as they were; a DELETE of a
\* series that owns no post removes it and is answered 200; no step
\* removes a series that owns a post.
C20_SeriesWithPostsStays ==
    [][/\ \A id \in DOMAIN series : OwnsPosts(id) => id \in DOMAIN series'
       /\ \A r \in DOMAIN reqs :
             Steps(r, "deleteSeries") =>
                 IF OwnsPosts(reqs[r].id)
                 THEN Refused(r) /\ series' = series
                 ELSE (reqs[r].pc = "delete" /\ reqs[r].id \in DOMAIN series) =>
                          /\ reqs[r].id \notin DOMAIN series'
                          /\ Returns(r) /\ last'.code = 200]_vars

\* one series is deleted; the delete of the other has passed its check
\* and is refused by the store, for a post that came into the series since
C20_Witness ==
    /\ Cardinality(DOMAIN series) = 1
    /\ last.op = "deleteSeries" /\ last.code = 500 /\ last.err = ForeignKeyError
    /\ \E id \in DOMAIN series : OwnsPosts(id)

---------------------------------------------------------------------------
(* Properties of generateSlug. *)

\* C21: generateSlug is idempotent: applied to a slug it returned, it
\* returns that slug.
C21_SlugIdempotent ==
    [][\A r \in DOMAIN reqs :
          (reqs[r].op = "generateSlug" /\ reqs[r].pc = "slug" /\ reqs'[r] # reqs[r]) =>
              reqs'[r].text = reqs[r].text]_vars

\* generateSlug has run twice on a text with an upper case letter, an
\* accent, a space and a punctuation mark, which its first run turned into
\* a slug with a hyphen in it
C21_Witness ==
    /\ reqs[1].op = "generateSlug" /\ reqs[1].pc = "again"
    /\ {"A", "E_acute", " "} \subseteq Range(reqs[1].input)
    /\ reqs[1].text = <<"a", "-", "e">>

---------------------------------------------------------------------------
(* Properties of reports computed while posts are written. *)

\* a report has just been answered in full
FullReport == last.op = "whatsNext" /\ last.code = 200

\* the posts the report just answered lists in both publish sections
InBothSections ==
    PostIds(last.body.toPublishOnYouTube) \cap PostIds(last.body.toPublishOnX)

\* C22 as stated: no report lists a post in toPublishOnYouTube and in
\* toPublishOnX, whatever updates run between its queries.
C22_AsStated == FullReport => InBothSections = {}

\* the section that the step of slot r adds to its report, if it adds one
Answers(r, query) ==
    /\ reqs[r].op = "whatsNext"
    /\ query \in reqs[r].pending
    /\ \/ reqs'[r].op = "whatsNext" /\ query \notin reqs'[r].pending
       \/ Returns(r) /\ last'.code = 200 /\ reqs[r].pending = {query}

Answer(r, query) == IF Returns(r) THEN last'.body[query] ELSE reqs'[r].body[query]

\* C22, amended: a report whose five queries ran with no write between
\* them lists no post in both sections; in every report, each post of
\* toPublishOnX had the YouTube status public and the X status none, and
\* each post of toPublishOnYouTube had the YouTube status none, in the
\* store as it was when the query of that section ran.
C22_SectionsPerQuery ==
    /\ [](QuietReport => InBothSections = {})
    /\ [][\A r \in DOMAIN reqs :
            /\ Answers(r, "toPublishOnX") =>
                  \A p \in PostIds(Answer(r, "toPublishOnX")) :
                      /\ posts[p].statusOnYoutube = "public"
                      /\ posts[p].statusOnX = "none"
            /\ Answers(r, "toPublishOnYouTube") =>
                  \A p \in PostIds(Answer(r, "toPublishOnYouTube")) :
                      posts[p].statusOnYoutube = "none"]_vars

\* a report, with an update of a post written between its queries, lists
\* that post in both sections
C22_Witness ==
    /\ FullReport /\ ~last.quiet
    /\ InBothSections # {}
    /\ \A p \in InBothSections : posts[p].statusOnYoutube = "public"

---------------------------------------------------------------------------
(* Properties of the stored posts. *)

Channels == {"statusOnYoutube", "statusOnWebsite", "statusOnX"}

\* C23: every stored post has, on each channel, a status that is one of
\* none, scheduled, public, private, deleted; a post created with no
\* channel status given has none on every channel.
C23_ChannelStatusIsSet ==
    \A p \in DOMAIN posts : \A channel \in Channels :
        posts[p][channel] \in PlatformStatuses

(* Properties of the scope of the slug check. *)
\* the step of slot r is a turn of the loop of ensureUniqueSlug
LoopTurn(r) ==
    /\ reqs[r].op = "ensureUniqueSlug"
    /\ reqs[r].pc = "unique"
    /\ reqs'[r] # reqs[r]

\* the turn found the value tried in the table
CountedCollision(r) == ~(reqs'[r].pc = "returned" /\ reqs'[r].resolved.checked)

\* the rows other than excludeId that hold the value tried and satisfy conds
RowsHolding(e, conds) ==
    {id \in DOMAIN Table(e.table) \ {e.excludeId} :
        /\ Table(e.table)[id].slug = e.currentSlug
        /\ \A c \in DOMAIN conds : Table(e.table)[id][c] = conds[c]}

\* C24 as stated: a turn of ensureUniqueSlug counts a collision exactly when
\* a row other than excludeId holds the value tried and satisfies every
\* equality filter of additionalConditions.
C24_AsStated ==
    [][\A r \in DOMAIN reqs :
          LoopTurn(r) =>
              (CountedCollision(r) <=> RowsHolding(reqs[r].eus, reqs[r].eus.conds) # {})]_vars

\* C24: for the tables websites, series and posts a turn of ensureUniqueSlug
\* counts a collision exactly when a row other than excludeId holds the
\* value tried anywhere in the table, whatever additionalConditions says.
C24_ScopeIsTheTable ==
    [][\A r \in DOMAIN reqs :
          (LoopTurn(r) /\ reqs[r].eus.table \in GloballyUniqueSlugTables) =>
              (CountedCollision(r) <=> RowsHolding(reqs[r].eus, <<>>) # {})]_vars

C24_Witness ==
    /\ reqs[1].op = "ensureUniqueSlug"
    /\ reqs[1].pc = "unique"
    /\ reqs[1].eus.attempt = 1
    /\ reqs[1].eus.conds = [websiteId |-> 2]
    /\ \A id \in DOMAIN series :
           series[id].slug = reqs[1].eus.initialSlug => series[id].websiteId = 1

(* Properties of updatePost. *)
\* the step of slot r is the write of an updatePost
WriteOf(r) ==
    /\ reqs[r].op = "updatePost"
    /\ reqs[r].pc = "update"
    /\ reqs'[r] # reqs[r]

\* C25: updatePost accepts each of the seven status values whatever the
\* current status of the post: a request that names a stored post and a
\* status goes on to its write, the write succeeds, and the stored status
\* is then the requested one.
C25_AnyStatusToAnyStatus ==
    [][\A r \in DOMAIN reqs :
          /\ \A id \in DOMAIN posts, s \in Statuses :
                 (reqs[r] = Idle /\ reqs'[r] # Idle /\ reqs'[r].op = "updatePost"
                  /\ reqs'[r].id = id /\ reqs'[r].updates = [status |-> s])
                     => reqs'[r].pc = "update"
          /\ (WriteOf(r) /\ Has(reqs[r].updates, "status")) =>
                 /\ last'.code = 200
                 /\ posts'[reqs[r].id].status = reqs[r].updates.status]_vars

C25_Witness ==
    /\ last.op = "updatePost"
    /\ last.code = 200
    /\ posts[2].status = "draft"
    /\ posts[2].lastStatusChangeAt > ClockStart
    /\ posts[1].status = "generatingVideo"

(* Properties of the stored slugs. *)
\* C26: no website, series or post is stored with an empty slug; a title
\* that normalises to the empty string is replaced by a fallback before
\* the write.
C26_NoEmptySlug ==
    /\ \A w \in DOMAIN websites : websites[w].slug # <<>>
    /\ \A s \in DOMAIN series : series[s].slug # <<>>
    /\ \A p \in DOMAIN posts : posts[p].slug # <<>>

\* the columns of post id that the step changes
ChangedColumns(id) == {c \in DOMAIN posts[id] : posts'[id][c] # posts[id][c]}

\* updated_at, and last_status_change_at for a request that names a status
Stamps(body) ==
    {"updatedAt"} \cup (IF Has(body, "status") THEN {"lastStatusChangeAt"} ELSE {})

\* no post other than id changes, appears or disappears
OthersKept(id) ==
    /\ DOMAIN posts' = DOMAIN posts
    /\ \A o \in DOMAIN posts \ {id} : posts'[o] = posts[o]

\* C27 as stated: the write of an updatePost changes, in the post it names,
\* only the fields the request supplies, updatedAt and (when the request
\* supplies a status) lastStatusChangeAt, and changes no other post.
C27_AsStated ==
    [][\A r \in DOMAIN reqs :
          WriteOf(r) =>
              /\ ChangedColumns(reqs[r].id) \subseteq DOMAIN reqs[r].body \cup Stamps(reqs[r].body)
              /\ OthersKept(reqs[r].id)]_vars

\* C27: the write of an updatePost changes, in the post it names, only the
\* fields the request supplies, updatedAt, lastStatusChangeAt when the
\* request supplies a status, and the slug when the request supplies a
\* title; a request that sets one channel status leaves the other channels,
\* the status and the freeze flag as they were and gives the channel the
\* requested value; no other post changes.
C27_FrameOfUpdate ==
    [][\A r \in DOMAIN reqs :
          WriteOf(r) =>
              LET body == reqs[r].body
                  id == reqs[r].id
              IN  /\ ChangedColumns(id) \subseteq
                         DOMAIN body \cup Stamps(body)
                         \cup (IF Has(body, "title") THEN {"slug"} ELSE {})
                  /\ OthersKept(id)
                  /\ \A channel \in Channels :
                         DOMAIN body = {channel} =>
                             /\ posts'[id][channel] = body[channel]
                             /\ \A c \in (Channels \ {channel}) \cup {"status", "freezeStatus"} :
                                    posts'[id][c] = posts[id][c]]_vars

C27_Witness ==
    /\ last.op = "updatePost"
    /\ last.code = 200
    /\ posts[2].statusOnX = "public"
    /\ posts[2].statusOnYoutube = "public"
    /\ posts[2].status = "videoGenerated"
    /\ posts[2].updatedAt > ClockStart
    /\ posts[2].lastStatusChangeAt = ClockStart
    /\ posts[1] = ReportRow(1, "draft", "none", "none")

(* Properties of the series of a post. *)
\* C28: in every state, whatever the interleaving of deleteSeries with
\* createPost and updatePost, the seriesId of every stored post is null
\* or the id of a stored series.
C28_SeriesOfPostExists ==
    \A p \in DOMAIN posts :
        posts[p].seriesId # NULL => posts[p].seriesId \in DOMAIN series

\* a series is gone, a post is stored, and the write that tried to attach a
\* post to the deleted series was refused by the store
C28_Witness ==
    /\ 1 \notin DOMAIN series
    /\ posts # <<>>
    /\ last.op \in {"createPost", "updatePost"}
    /\ last.code = 500
    /\ last.err = ForeignKeyError

(* Properties of the sessions. *)
\* a stored session matches token and its expiry is not in the past
ValidSession(token) ==
    /\ token # NoToken
    /\ token \in DOMAIN sessions
    /\ ~(sessions[token].expiresAt < now)

\* the step admits a request to a protected route through ensureAuth
Admitted(r) ==
    /\ reqs[r] = Idle
    /\ reqs'[r] # Idle
    /\ reqs'[r].op = "protected"

\* the step runs the handler of a protected route
HandlerRuns(r) ==
    /\ reqs[r] # Idle
    /\ reqs[r].op = "protected"
    /\ reqs'[r] = Idle

\* C29: a request to a protected route goes past ensureAuth only if, when
\* ensureAuth looks, a stored session matches its token and has not
\* expired, and its handler runs only after that; a request with no token,
\* an unknown token or an expired session is answered 401 and its handler
\* does not run.
C29_HandlerBehindSession ==
    [][/\ \A r \in DOMAIN reqs :
              /\ Admitted(r) => (ValidSession(reqs'[r].token) /\ reqs'[r].pc = "renew")
              /\ (reqs'[r] # reqs[r] /\ reqs'[r] # Idle /\ reqs'[r].op = "protected"
                  /\ reqs'[r].pc = "handler") => (reqs[r] # Idle /\ reqs[r].pc = "renew")
              /\ HandlerRuns(r) => (reqs[r].pc = "handler" /\ last'.code = 200)
       /\ (last'.op = "protected" /\ reqs' = reqs) =>
              (last'.code = 401 /\ ~ValidSession(last'.token))]_vars

C29_Witness ==
    /\ last.op = "protected"
    /\ last.code = 200
    /\ last.token = "t2"
    /\ "t2" \in DOMAIN sessions
    /\ sessions["t2"].expiresAt = ClockStart + sessionDurationMs
    /\ now > ClockStart

\* logoutHandler has just answered success to a request that carried token
LoggedOut(token) ==
    /\ last.op = "logout"
    /\ last.code = 200
    /\ last.token = token

\* the step lets a new request that carries token past the session check
\* of ensureAuth or of getSessionHandler
Accepts(token) ==
    \E r \in DOMAIN reqs :
        /\ reqs[r] = Idle
        /\ reqs'[r] # Idle
        /\ reqs'[r].op \in {"protected", "getSession"}
        /\ reqs'[r].token = token

\* the step answers a request on its arrival, without admitting it
TurnedAway(op) ==
    /\ reqs' = reqs
    /\ last' # last
    /\ last'.op = op

=============================================================================
